---- MODULE Spec2Model ----
(***************************************************************************)
(* Silkcards-3D parser-service.                                            *)
(*                                                                         *)
(* Spec     the Flask /parse handler of src/api_server.py: validation,     *)
(*          the single-flight JOB_LOCK, upload save, run_job, the except   *)
(*          handler and the finally block, for NumReqs concurrent requests.*)
(* SpecJob  one ParserJob.run() of src/app.py in detail: the Illustrator   *)
(*          export (src/illustrator.py) against the external script, the   *)
(*          per-side Ghostscript loop, the die-vector phase, the report    *)
(*          assembly and _handle_failure.                                  *)
(***************************************************************************)
EXTENDS Integers, Sequences, FiniteSets, TLC

\* ------------------------------------------------------------------ bounds
NumReqs == 2
MaxSides == 2
MaxPolls == 2
MaxCalls == 2
MaxOps == 4
MaxIndex == 2

Reqs == 1..NumReqs

\* ------------------------------------------------------------- HTTP state
VARIABLES
  JOB_LOCK,     \* TRUE while the threading.Lock is held
  rpc,          \* per request: position inside parse()
  reqIn,        \* per request: the request's inputs
  status,       \* per request: HTTP status answered (0 = none yet)
  body,         \* per request: kind of body answered
  bodyJob,      \* per request: job_id field of the error body (0 = none)
  job_id,       \* per request: uuid allocated after admission (0 = none)
  nextId,       \* source of fresh uuids
  incoming,     \* requests whose upload exists under jobs/incoming
  failedIn,     \* requests whose upload was moved under jobs/failed
  reports,      \* job ids with results/<job_id>/report.json
  acquired,     \* per request: number of successful JOB_LOCK.acquire
  released,     \* per request: number of JOB_LOCK.release calls
  ran,          \* per request: TRUE once run_job was entered
  busyAt        \* per request: TRUE when its acquire found the lock held

svars == <<JOB_LOCK, rpc, reqIn, status, body, bodyJob, job_id, nextId, incoming,
           failedIn, reports, acquired, released, ran, busyAt>>

NoInput == [key |-> FALSE, file |-> "none", big |-> FALSE]

Inputs == [key : BOOLEAN, file : {"none", "card.ai", "card.pdf"}, big : BOOLEAN]

\* positions of parse() between JOB_LOCK.acquire and JOB_LOCK.release
CriticalPcs == {"save", "run", "report", "except", "finally"}

InPipeline(r) == rpc[r] \in CriticalPcs

SInit ==
  /\ JOB_LOCK = FALSE
  /\ rpc = [r \in Reqs |-> "idle"]
  /\ reqIn = [r \in Reqs |-> NoInput]
  /\ status = [r \in Reqs |-> 0]
  /\ body = [r \in Reqs |-> "none"]
  /\ bodyJob = [r \in Reqs |-> 0]
  /\ job_id = [r \in Reqs |-> 0]
  /\ nextId = 1
  /\ incoming = {}
  /\ failedIn = {}
  /\ reports = {}
  /\ acquired = [r \in Reqs |-> 0]
  /\ released = [r \in Reqs |-> 0]
  /\ ran = [r \in Reqs |-> FALSE]
  /\ busyAt = [r \in Reqs |-> FALSE]

\* a client issues POST /parse
Arrive(r) ==
  /\ rpc[r] = "idle"
  /\ \E i \in Inputs : reqIn' = [reqIn EXCEPT ![r] = i]
  /\ rpc' = [rpc EXCEPT ![r] = "validate"]
  /\ UNCHANGED <<JOB_LOCK, status, body, bodyJob, job_id, nextId, incoming, failedIn,
                 reports, acquired, released, ran, busyAt>>

\* the status of the first failing check, 0 when all checks pass
ValidationStatus(i) ==
  IF ~i.key THEN 401
  ELSE IF i.file = "none" THEN 400
  ELSE IF i.file # "card.ai" THEN 400
  ELSE IF i.big THEN 413
  ELSE 0

ValidationBody(i) ==
  IF ~i.key THEN "unauthorized"
  ELSE IF i.file = "none" THEN "missing file"
  ELSE IF i.file # "card.ai" THEN "only .ai files allowed"
  ELSE IF i.big THEN "file too large"
  ELSE "none"

\* Validate that stores the upload under incoming before checking it
ValidateSavesFirst(r) ==
  /\ rpc[r] = "validate"
  /\ incoming' = incoming \cup {r}
  /\ IF ValidationStatus(reqIn[r]) # 0
       THEN /\ status' = [status EXCEPT ![r] = ValidationStatus(reqIn[r])]
            /\ body' = [body EXCEPT ![r] = ValidationBody(reqIn[r])]
            /\ UNCHANGED bodyJob
            /\ rpc' = [rpc EXCEPT ![r] = "done"]
       ELSE /\ rpc' = [rpc EXCEPT ![r] = "lock"]
            /\ UNCHANGED <<status, body, bodyJob>>
  /\ UNCHANGED <<JOB_LOCK, reqIn, job_id, nextId, failedIn,
                 reports, acquired, released, ran, busyAt>>

\* auth, file, extension and size checks: reject or go on to the lock
Validate(r) ==
  /\ rpc[r] = "validate"
  /\ IF ValidationStatus(reqIn[r]) # 0
       THEN /\ status' = [status EXCEPT ![r] = ValidationStatus(reqIn[r])]
            /\ body' = [body EXCEPT ![r] = ValidationBody(reqIn[r])]
            /\ UNCHANGED bodyJob
            /\ rpc' = [rpc EXCEPT ![r] = "done"]
       ELSE /\ rpc' = [rpc EXCEPT ![r] = "lock"]
            /\ UNCHANGED <<status, body, bodyJob>>
  /\ UNCHANGED <<JOB_LOCK, reqIn, job_id, nextId, incoming, failedIn,
                 reports, acquired, released, ran, busyAt>>

\* threading.Lock.acquire(blocking=False): TRUE iff the lock was free
\* an acquire that reports success whether or not the lock was free
AcquireAlways(locked) == TRUE

AcquireNonBlocking(locked) == ~locked

\* TryAcquire that admits the request without taking the lock
TryAcquireNoLock(r) ==
  /\ rpc[r] = "lock"
  /\ IF AcquireNonBlocking(JOB_LOCK)
       THEN /\ acquired' = [acquired EXCEPT ![r] = @ + 1]
            /\ job_id' = [job_id EXCEPT ![r] = nextId]
            /\ nextId' = nextId + 1
            /\ rpc' = [rpc EXCEPT ![r] = "save"]
            /\ UNCHANGED <<JOB_LOCK, status, body, bodyJob, busyAt>>
       ELSE /\ status' = [status EXCEPT ![r] = 409]
            /\ body' = [body EXCEPT ![r] = "busy"]
            /\ UNCHANGED bodyJob
            /\ busyAt' = [busyAt EXCEPT ![r] = TRUE]
            /\ rpc' = [rpc EXCEPT ![r] = "done"]
            /\ UNCHANGED <<JOB_LOCK, acquired, job_id, nextId>>
  /\ UNCHANGED <<reqIn, incoming, failedIn, reports, released, ran>>

\* if not JOB_LOCK.acquire(blocking=False): 409, else allocate the job id
TryAcquire(r) ==
  /\ rpc[r] = "lock"
  /\ IF AcquireNonBlocking(JOB_LOCK)
       THEN /\ JOB_LOCK' = TRUE
            /\ acquired' = [acquired EXCEPT ![r] = @ + 1]
            /\ job_id' = [job_id EXCEPT ![r] = nextId]
            /\ nextId' = nextId + 1
            /\ rpc' = [rpc EXCEPT ![r] = "save"]
            /\ UNCHANGED <<status, body, bodyJob, busyAt>>
       ELSE /\ status' = [status EXCEPT ![r] = 409]
            /\ body' = [body EXCEPT ![r] = "busy"]
            /\ UNCHANGED bodyJob
            /\ busyAt' = [busyAt EXCEPT ![r] = TRUE]
            /\ rpc' = [rpc EXCEPT ![r] = "done"]
            /\ UNCHANGED <<JOB_LOCK, acquired, job_id, nextId>>
  /\ UNCHANGED <<reqIn, incoming, failedIn, reports, released, ran>>

\* file.save(incoming_path): succeeds, or raises leaving the file or not
SaveUpload(r) ==
  /\ rpc[r] = "save"
  /\ \/ /\ incoming' = incoming \cup {r}
        /\ rpc' = [rpc EXCEPT ![r] = "run"]
     \/ /\ \E partial \in BOOLEAN :
             incoming' = IF partial THEN incoming \cup {r} ELSE incoming
        /\ rpc' = [rpc EXCEPT ![r] = "except"]
  /\ UNCHANGED <<JOB_LOCK, reqIn, status, body, bodyJob, job_id, nextId, failedIn,
                 reports, acquired, released, ran, busyAt>>

\* result = run_job(incoming_path, job_id): returns after report.json was
\* saved, or raises, in the save of the report after the file was opened
\* or elsewhere
RunJob(r) ==
  /\ rpc[r] = "run"
  /\ ran' = [ran EXCEPT ![r] = TRUE]
  /\ \/ /\ reports' = reports \cup {job_id[r]}
        /\ rpc' = [rpc EXCEPT ![r] = "report"]
     \/ /\ rpc' = [rpc EXCEPT ![r] = "except"]
        /\ \E opened \in BOOLEAN :
             reports' = IF opened THEN reports \cup {job_id[r]} ELSE reports
  /\ UNCHANGED <<JOB_LOCK, reqIn, status, body, bodyJob, job_id, nextId, incoming,
                 failedIn, acquired, released, busyAt>>

\* load report.json and answer it (or the result dict); a read error raises
LoadReport(r) ==
  /\ rpc[r] = "report"
  /\ \/ /\ status' = [status EXCEPT ![r] = 200]
        /\ body' = [body EXCEPT ![r] =
                      IF job_id[r] \in reports THEN "report" ELSE "result"]
        /\ UNCHANGED bodyJob
        /\ rpc' = [rpc EXCEPT ![r] = "finally"]
     \/ /\ job_id[r] \in reports
        /\ rpc' = [rpc EXCEPT ![r] = "except"]
        /\ UNCHANGED <<status, body, bodyJob>>
  /\ UNCHANGED <<JOB_LOCK, reqIn, job_id, nextId, incoming, failedIn,
                 reports, acquired, released, ran, busyAt>>

\* an error answer without the job id
ErrorResponseNoJobId(jid) ==
  [status |-> 500, body |-> "error", job_id |-> 0]

\* jsonify({"error": True, "message": str(e), "job_id": job_id}), 500
ErrorResponse(jid) ==
  [status |-> 500, body |-> "error", job_id |-> jid]

\* ExceptHandler that returns without passing through the finally block
ExceptHandlerSkipsRelease(r) ==
  /\ rpc[r] = "except"
  /\ IF r \in incoming
       THEN \/ /\ incoming' = incoming \ {r}
               /\ failedIn' = failedIn \cup {r}
            \/ UNCHANGED <<incoming, failedIn>>
       ELSE UNCHANGED <<incoming, failedIn>>
  /\ status' = [status EXCEPT ![r] = ErrorResponse(job_id[r]).status]
  /\ body' = [body EXCEPT ![r] = ErrorResponse(job_id[r]).body]
  /\ bodyJob' = [bodyJob EXCEPT ![r] = ErrorResponse(job_id[r]).job_id]
  /\ rpc' = [rpc EXCEPT ![r] = "cleanup"]
  /\ UNCHANGED <<JOB_LOCK, reqIn, job_id, nextId, reports, acquired,
                 released, ran, busyAt>>

\* except Exception: move the upload to failed (best effort), answer 500
ExceptHandler(r) ==
  /\ rpc[r] = "except"
  /\ IF r \in incoming
       THEN \/ /\ incoming' = incoming \ {r}
               /\ failedIn' = failedIn \cup {r}
            \/ UNCHANGED <<incoming, failedIn>>
       ELSE UNCHANGED <<incoming, failedIn>>
  /\ status' = [status EXCEPT ![r] = ErrorResponse(job_id[r]).status]
  /\ body' = [body EXCEPT ![r] = ErrorResponse(job_id[r]).body]
  /\ bodyJob' = [bodyJob EXCEPT ![r] = ErrorResponse(job_id[r]).job_id]
  /\ rpc' = [rpc EXCEPT ![r] = "finally"]
  /\ UNCHANGED <<JOB_LOCK, reqIn, job_id, nextId, reports, acquired,
                 released, ran, busyAt>>

\* a finally block that leaves the lock held
ReleaseKeepsLock(r) ==
  /\ rpc[r] = "finally"
  /\ released' = [released EXCEPT ![r] = @ + 1]
  /\ rpc' = [rpc EXCEPT ![r] = "cleanup"]
  /\ UNCHANGED <<JOB_LOCK, reqIn, status, body, bodyJob, job_id, nextId,
                 incoming, failedIn, reports, acquired, ran, busyAt>>

\* finally: JOB_LOCK.release()
Release(r) ==
  /\ rpc[r] = "finally"
  /\ JOB_LOCK' = FALSE
  /\ released' = [released EXCEPT ![r] = @ + 1]
  /\ rpc' = [rpc EXCEPT ![r] = "cleanup"]
  /\ UNCHANGED <<reqIn, status, body, bodyJob, job_id, nextId, incoming, failedIn,
                 reports, acquired, ran, busyAt>>

\* finally: unlink the upload if it still exists (best effort); respond
Cleanup(r) ==
  /\ rpc[r] = "cleanup"
  /\ IF r \in incoming
       THEN \/ incoming' = incoming \ {r}
            \/ UNCHANGED incoming
       ELSE UNCHANGED incoming
  /\ rpc' = [rpc EXCEPT ![r] = "done"]
  /\ UNCHANGED <<JOB_LOCK, reqIn, status, body, bodyJob, job_id, nextId, failedIn,
                 reports, acquired, released, ran, busyAt>>

SNext ==
  \E r \in Reqs :
    \/ Arrive(r)
    \/ Validate(r)
    \/ TryAcquire(r)
    \/ SaveUpload(r)
    \/ RunJob(r)
    \/ LoadReport(r)
    \/ ExceptHandler(r)
    \/ Release(r)
    \/ Cleanup(r)

\* ------------------------------------------------------------ job state
JobId == "J1"

VARIABLES
  jpc,            \* position inside ParserJob.run()
  phase,          \* phase of run() that was entered last
  trace,          \* log of phase starts, ends and raises, in order
  proc,           \* the Illustrator process: none, running, exited, killed
  script,         \* the JSX script inside it: none, running, ended
  wfiles,         \* artifact files in working/<job_id> (PDFs, PNGs, SVGs)
  doneMarker,     \* <job_id>_jsx_done.txt: absent, empty, written
  errMarker,      \* <job_id>_error.json: absent, unreadable, or its JSON
  scratchFile,    \* <job_id>_scratch.json: absent, partial, or its content
  jobJsx,         \* job id written in scripts/runtime/job.jsx ("" = none)
  timedOut,       \* TRUE once proc.communicate raised TimeoutExpired
  returncode,     \* proc.returncode: <<>> while None, else <<code>>
  polls,          \* polls made by _wait_for_file
  scratch_data,   \* scratch_data returned by run_export_job
  sides_to_process, \* the sides the Ghostscript phase iterates
  sideIdx,        \* index of the next side of the loop
  sideStatus,     \* per side of sides_to_process: pending/skipped/moved/failed
  all_plates_detected, \* plates collected by the Ghostscript loop
  gsCalls,        \* indices of the sides the separator was called for
  results,        \* files in results/<job_id>
  diagnostics,    \* ReportBuilder.diagnostics
  rsides,         \* ReportBuilder.sides
  outputs,        \* ReportBuilder.outputs (key -> filename)
  plates_detected,\* ReportBuilder.plates_detected
  report_json,    \* results/<job_id>/report.json: <<>>, or <<d>> its JSON
  validation_errors, \* <<>>, or <<w>>: what validate_report returned
  vectorTool,     \* pdfToolbox in the die-vector phase: state, failed sides
  exc,            \* exception in flight inside run() ("none" = none)
  handlerError,   \* exception raised inside _handle_failure ("none" = none)
  listed,         \* the files _handle_failure found in the working directory
  failedArchive,  \* files in failed/<job_id>
  errorReport,    \* jobId of failed/<job_id>/error.json ("" = not written)
  propagated      \* exception run() raised to its caller ("none" = none)

jvars == <<jpc, phase, trace, proc, script, wfiles, doneMarker, errMarker,
           scratchFile, jobJsx, timedOut, returncode, polls, scratch_data,
           sides_to_process, sideIdx, sideStatus, all_plates_detected,
           gsCalls, results,
           diagnostics, rsides, outputs, plates_detected, report_json,
           validation_errors, vectorTool, exc, handlerError,
           listed,           failedArchive, errorReport, propagated>>

\* ------------------------------------------ state of _wait_for_file
VARIABLES
  wpc,        \* position inside _wait_for_file
  wfile,      \* the awaited file: absent, empty (size 0), written (size > 0)
  wtimeout,   \* the timeout of the call, in sleep intervals
  wclock,     \* time.time() - start, in sleep intervals
  wpolls,     \* polls made by the call
  wresult,    \* what the call returned or raised ("none" while it runs)
  wprev,      \* what the previous call returned or raised
  wcalls,     \* number of calls started
  wever,      \* TRUE if the file had non-zero size at some time of the call
  wchanged    \* TRUE if the file was changed since the previous call ended

wvars == <<wpc, wfile, wtimeout, wclock, wpolls, wresult, wprev, wcalls,
           wever, wchanged>>

\* ------------------------------------------ state of a ReportBuilder
VARIABLES
  rbpc,         \* "none" before ReportBuilder(job_id), then "open"
  passedId,     \* the job id passed to the pipeline ("" = none yet)
  rbJobId,      \* ReportBuilder.job_id
  rbInfo,       \* ReportBuilder.illustrator_info: its version ("" = {})
  rbArtboards,  \* ReportBuilder.artboards
  rbSides,      \* ReportBuilder.sides
  rbPlates,     \* ReportBuilder.plates_detected
  rbOutputs,    \* ReportBuilder.outputs, a dict as a set of <<key, filename>>
  rbDiags,      \* ReportBuilder.diagnostics
  rbBuilt,      \* <<d>>: the dict d the last build() returned, as it is now
  rbBuiltAt,    \* <<d>>: the same dict as it was when build() returned it
  rbSaved,      \* <<d>>: the JSON value written by the last save()
  rbWarnings,   \* <<w>>: the list w the last validate_report returned
  rbOps         \* number of calls made on the builder

rbvars == <<rbpc, passedId, rbJobId, rbInfo, rbArtboards, rbSides, rbPlates,
            rbOutputs, rbDiags, rbBuilt, rbBuiltAt, rbSaved, rbWarnings,
            rbOps>>

\* ------------------------------------------ state of an asset request
VARIABLES
  apc,       \* GET /assets/<job_id>/<filename>: "idle", "requested", "done"
  aStatus,   \* HTTP status it was answered with (0 = none yet)
  aHeld      \* JOB_LOCK as it was when the request was answered

avars == <<apc, aStatus, aHeld>>

\* --------------------------------- state of detect_finish_from_name
VARIABLES
  dName,    \* the layer or plate name, a sequence of characters
  dpc,      \* drawn, done
  dResult   \* what detect_finish_from_name returned

dvars == <<dName, dpc, dResult>>

\* ------------------------------------- the job directory before the run
VARIABLES
  staleMarkers  \* TRUE iff the working directory held a done or error
                \* sentinel of an earlier run when the job started

\* ------------------------- state of the /parse handler of app.py
VARIABLES
  lLock,      \* app.py JOB_LOCK: TRUE while held
  lpc,        \* per request: position inside parse()
  lStatus,    \* per request: HTTP status answered (0 = none yet)
  lId,        \* per request: uuid allocated after admission (0 = none)
  lNextId,    \* source of fresh uuids
  lIncoming,  \* requests whose upload exists under jobs/incoming
  lJobJsx,    \* job id in scripts/runtime/job.jsx (0 = no file)
  lScript,    \* per request: its Illustrator: none, running, killed
  lRead       \* per request: job id its script read from job.jsx
              \* (0 = not read yet, -1 = the file was not there)

lvars == <<lLock, lpc, lStatus, lId, lNextId, lIncoming, lJobJsx, lScript,
           lRead>>

\* ------------------------------------- state of the pure-function checks
VARIABLES
  npc,      \* "drawn", "applied", "again"
  nameA,    \* a (side, layer_index, finish) tuple
  nameB,    \* another tuple
  fileA,    \* get_output_filename of nameA
  fileB,    \* get_output_filename of nameB
  fileA2    \* get_output_filename of nameA, called a second time

nvars == <<npc, nameA, nameB, fileA, fileB, fileA2>>

vars == <<svars, jvars, wvars, rbvars, nvars, avars, lvars, staleMarkers,
          dvars>>

\* ---------------------------------------------------------- file names
\* a file is <<stem, extension>>: Path.stem is f[1], Path.name the pair
InputName == <<JobId \o "__card", "ai">>
MainPdf == <<JobId, "pdf">>
DoneName == <<JobId \o "_jsx_done", "txt">>
ErrorName == <<JobId \o "_error", "json">>
ScratchName == <<JobId \o "_scratch", "json">>
ReportName == <<"report", "json">>
ErrorReportName == <<"error", "json">>

SideNames == {"front", "back"}

\* f"{job_id}_{side}_layer_{side_index}.pdf"
SidePdf(side, index) ==
  <<JobId \o "_" \o side \o "_layer_" \o ToString(index), "pdf">>

\* the albedo PNGs and die SVGs the JSX script exports, matched by the
\* globs "*_albedo.png" and "*_diecut.svg"
AlbedoPngs == {<<s \o "_layer_0_albedo", "png">> : s \in SideNames}

JsxDieSvgs == {<<"front_layer_0_diecut", "svg">>}

\* every artifact the external script may leave in the working directory
ScriptArtifacts ==
  {MainPdf} \cup {SidePdf(s, 0) : s \in SideNames}
            \cup {<<"front_layer_0_albedo", "png">>} \cup JsxDieSvgs

\* a listing of working/<job_id> that leaves the JSON files out
WorkingFilesNoJson ==
  wfiles \cup (IF doneMarker # "absent" THEN {DoneName} ELSE {})

\* the files of working/<job_id>, as glob("*") lists them
WorkingFiles ==
  wfiles \cup (IF doneMarker # "absent" THEN {DoneName} ELSE {})
         \cup (IF errMarker.state # "absent" THEN {ErrorName} ELSE {})
         \cup (IF scratchFile.state # "absent" THEN {ScratchName} ELSE {})

\* config.OUTPUT_FORMATS.get(finish, "png")
OutputFormat(finish) == IF finish = "diecut_svg" THEN "svg" ELSE "png"

\* a naming that leaves the layer index out
get_output_filename_no_index(side, layer_index, finish) ==
  LET finish_normalized ==
        IF finish \in {"die", "diecut"} THEN "diecut_mask" ELSE finish
  IN << side \o "_layer_" \o finish_normalized,
        OutputFormat(finish_normalized) >>

\* config.get_output_filename(side, layer_index, finish)
get_output_filename(side, layer_index, finish) ==
  LET finish_normalized ==
        IF finish \in {"die", "diecut"} THEN "diecut_mask" ELSE finish
  IN << side \o "_layer_" \o ToString(layer_index) \o "_" \o finish_normalized,
        OutputFormat(finish_normalized) >>

\* ------------------------------------------------- scratch metadata
FinishLists == {<<"albedo", "foil">>}

SideRecs == [side : SideNames, index : {0}, finishes : FinishLists]

RECURSIVE SeqsUpTo(_, _)
SeqsUpTo(S, n) ==
  IF n = 0 THEN {<<>>}
  ELSE LET shorter == SeqsUpTo(S, n - 1)
       IN shorter \cup {Append(s, x) : s \in {t \in shorter : Len(t) = n - 1},
                                       x \in S}

SideLists == SeqsUpTo(SideRecs, MaxSides)

\* what a complete scratch JSON may hold: a "sides" list, or no "sides" key
ScratchContents ==
  [state : {"complete"}, hasSides : {TRUE}, sides : SideLists]
    \cup {[state |-> "complete", hasSides |-> FALSE, sides |-> <<>>]}

\* no scratch file, and a scratch file whose JSON is not complete yet
ScratchAbsent == [state |-> "absent", hasSides |-> FALSE, sides |-> <<>>]

ScratchPartial == [state |-> "partial", hasSides |-> FALSE, sides |-> <<>>]

\* a scratch file whose bytes are not valid UTF-8 (cut inside a character,
\* or written in another encoding)
ScratchUndecodable ==
  [state |-> "undecodable", hasSides |-> FALSE, sides |-> <<>>]

\* Python's None for scratch data
NoData == ScratchAbsent

DefaultSides ==
  << [side |-> "front", index |-> 0, finishes |-> <<>>],
     [side |-> "back", index |-> 0, finishes |-> <<>>] >>

\* report.load_jsx_scratch_json: None when missing or not valid JSON
load_jsx_scratch_json(f) ==
  IF f.state = "complete" THEN f ELSE NoData

\* report.load_jsx_scratch_json catches json.JSONDecodeError and IOError
\* only: the UnicodeDecodeError of open(encoding='utf-8') escapes
load_jsx_scratch_json_raises(f) == f.state = "undecodable"

\* the scratch load at the end of run_job: None when the file is missing,
\* and on any exception of open or json.load
run_job_scratch_data(f) ==
  IF f.state = "complete" THEN f ELSE NoData

\* an exception: its class and its message
NoExc == [type |-> "none", msg |-> ""]

Exc(t, m) == [type |-> t, msg |-> m]

\* the error sentinel: no file, a file that is not valid JSON, JSON without
\* error.message, and JSON {error: {message: m}}
ErrAbsent == [state |-> "absent", hasMessage |-> FALSE, message |-> ""]

ErrUnreadable == [state |-> "partial", hasMessage |-> FALSE, message |-> ""]

ErrNoMessage == [state |-> "complete", hasMessage |-> FALSE, message |-> ""]

ErrFile(m) == [state |-> "complete", hasMessage |-> TRUE, message |-> m]

\* _read_error_sentinel: the JSON of the file, or the fallback dict when it
\* cannot be read
read_error_sentinel(f) ==
  IF f.state = "complete" THEN f ELSE ErrFile("Unknown error")

\* an extraction that never looks into the error data
error_message_ignored(error_data) == "Unknown error"

\* error_data.get('error', {}).get('message', 'Unknown error')
error_message(error_data) ==
  IF error_data.hasMessage THEN error_data.message ELSE "Unknown error"

\* the die-vector phase did not consult pdfToolbox
ToolUnused == [state |-> "unused", failed |-> {}]

\* the exit codes a process may end with: zero and non-zero
ExitCodes == {0, 1}

\* ------------------------------------------------------------ job init
JInit ==
  /\ jpc = "created"
  /\ phase = "created"
  /\ trace = <<>>
  /\ proc = "none"
  /\ script = "none"
  /\ wfiles = {}
  /\ doneMarker \in {"absent", "written"}
  /\ errMarker \in {ErrAbsent, ErrFile("stale")}
  /\ staleMarkers = (doneMarker # "absent" \/ errMarker # ErrAbsent)
  /\ scratchFile = ScratchAbsent
  /\ jobJsx = ""
  /\ timedOut = FALSE
  /\ returncode = <<>>
  /\ polls = 0
  /\ scratch_data = NoData
  /\ sides_to_process = <<>>
  /\ sideIdx = 1
  /\ sideStatus = <<>>
  /\ all_plates_detected = {}
  /\ gsCalls = {}
  /\ results = {}
  /\ diagnostics = <<>>
  /\ rsides = <<>>
  /\ outputs = {}
  /\ plates_detected = {}
  /\ report_json = <<>>
  /\ validation_errors = <<>>
  /\ vectorTool = ToolUnused
  /\ exc = NoExc
  /\ handlerError = NoExc
  /\ listed = {}
  /\ failedArchive = {}
  /\ errorReport = ""
  /\ propagated = NoExc

\* ------------------------------------------------- groups of variables
ctlVars == <<jpc, phase, trace, exc>>
illVars == <<proc, script, jobJsx, timedOut, returncode, polls, scratch_data>>
fileVars == <<wfiles, doneMarker, errMarker, scratchFile>>
gsVars == <<sides_to_process, sideIdx, sideStatus, all_plates_detected, gsCalls>>
reportVars == <<diagnostics, rsides, outputs, plates_detected>>
asmVars == <<report_json, validation_errors>>
failVars == <<handlerError, listed, failedArchive, errorReport, propagated>>

\* ------------------------------------------------- report.py
\* an add_diagnostic that keeps only the newest entry
add_diagnostic_overwriting(diags, level, code, detail) ==
  << [level |-> level, code |-> code, detail |-> detail] >>

\* ReportBuilder.add_diagnostic
add_diagnostic(diags, level, code, detail) ==
  Append(diags, [level |-> level, code |-> code, detail |-> detail])

\* ReportBuilder.add_output: self.outputs[key] = filename
add_output(outs, key, filename) ==
  {p \in outs : p[1] # key} \cup {<<key, filename>>}

\* a build() that leaves the diagnostics out of the dict
build_without_diagnostics(jid, info, artboards, sides, plates, outs, diags) ==
  [jobId |-> jid, illustrator |-> info, artboards |-> artboards,
   sides |-> sides, plates_detected |-> plates, outputs |-> outs]

\* ReportBuilder.build(): a new dict whose values are the builder's own
\* objects
build(jid, info, artboards, sides, plates, outs, diags) ==
  [jobId |-> jid, illustrator |-> info, artboards |-> artboards,
   sides |-> sides, plates_detected |-> plates, outputs |-> outs,
   diagnostics |-> diags]

\* report.py validate_report: the order of required_keys
required_keys ==
  <<"jobId", "illustrator", "artboards", "sides", "plates_detected",
    "outputs", "diagnostics">>

\* key in report["outputs"]
HasKey(outs, key) == \E p \in outs : p[1] = key

\* f"{side_name}_layer_{index}_{finish}"
output_key(side_name, index, finish) ==
  side_name \o "_layer_" \o ToString(index) \o "_" \o finish

\* a test that does not exempt the finish die
declares_missing_die_too(outs, key, finish) ==
  ~HasKey(outs, key)

\* key not in report["outputs"] and finish not in ["die"]
declares_missing(outs, key, finish) ==
  ~HasKey(outs, key) /\ finish \notin {"die"}

\* f"Side declares finish '{finish}' but no output: {key}"
missing_output_message(finish, key) ==
  "Side declares finish '" \o finish \o "' but no output: " \o key

\* the loop over required_keys
RECURSIVE missing_key_errors(_, _)
missing_key_errors(keys, report) ==
  IF keys = <<>> THEN <<>>
  ELSE (IF Head(keys) \notin DOMAIN report
          THEN << "Missing required key: " \o Head(keys) >>
          ELSE <<>>) \o missing_key_errors(Tail(keys), report)

\* the loop over the finishes of one side
RECURSIVE finish_errors(_, _, _, _)
finish_errors(side_name, index, finishes, outs) ==
  IF finishes = <<>> THEN <<>>
  ELSE LET finish == Head(finishes)
           key == output_key(side_name, index, finish)
           rest == finish_errors(side_name, index, Tail(finishes), outs)
       IN IF finish = "albedo" THEN rest
          ELSE IF declares_missing(outs, key, finish)
            THEN << missing_output_message(finish, key) >> \o rest
            ELSE rest

\* the loop over report["sides"]
RECURSIVE side_errors(_, _)
side_errors(sides, outs) ==
  IF sides = <<>> THEN <<>>
  ELSE finish_errors(Head(sides).side, Head(sides).index,
                     Head(sides).finishes, outs)
       \o side_errors(Tail(sides), outs)

\* validate_report(report): the list of messages it returns
validate_report(report) ==
  missing_key_errors(required_keys, report)
  \o (IF {"sides", "outputs"} \subseteq DOMAIN report
        THEN side_errors(report.sides, report.outputs)
        ELSE <<>>)

\* ----------------------------------------------------- run(): sequencing
\* NextPhase with the die-vector phase called before the Ghostscript phase
NextPhaseSwapped(p) ==
  CASE p = "created" -> "compositing"
    [] p = "compositing" -> "extracting_die"
    [] p = "extracting_die" -> "separating"
    [] p = "separating" -> "assembling"
    [] p = "assembling" -> "done"

\* the order of the phases in the body of run()
NextPhase(p) ==
  CASE p = "created" -> "compositing"
    [] p = "compositing" -> "separating"
    [] p = "separating" -> "extracting_die"
    [] p = "extracting_die" -> "assembling"
    [] p = "assembling" -> "done"

\* first position of each phase
EntryPc(p) ==
  CASE p = "compositing" -> "ill_init"
    [] p = "separating" -> "gs_load"
    [] p = "extracting_die" -> "die"
    [] p = "assembling" -> "assemble"
    [] p = "done" -> "done"

\* run() calls the next phase method, or returns success after the last
EnterPhase ==
  /\ jpc \in {"created", "next"}
  /\ phase' = NextPhase(phase)
  /\ jpc' = EntryPc(phase')
  /\ trace' = IF phase' = "done" THEN trace
              ELSE Append(trace, <<phase', "start">>)
  /\ UNCHANGED <<asmVars, vectorTool, exc, illVars, fileVars, gsVars, reportVars, failVars, results>>

\* the running phase method returns
EndPhase ==
  /\ trace' = Append(trace, <<phase, "end">>)
  /\ jpc' = "next"
  /\ UNCHANGED <<phase, exc>>

\* the running phase method raises e: control goes to run()'s except clause
Raise(e) ==
  /\ exc' = e
  /\ trace' = Append(trace, <<phase, "raise">>)
  /\ jpc' = "handle_failure"
  /\ UNCHANGED phase

Goto(pc) ==
  /\ jpc' = pc
  /\ UNCHANGED <<phase, trace, exc>>

\* ------------------------------------------- phase 1: Illustrator export
\* the except clauses of _run_illustrator_phase: the diagnostic they add
IllustratorPhaseDiagnostics(diags, e) ==
  IF e.type = "IllustratorTimeoutError"
    THEN add_diagnostic(diags, "error", "TIMEOUT_ILLUSTRATOR",
                        "Illustrator operation timed out")
  ELSE IF e.type = "IllustratorError"
    THEN add_diagnostic(diags, "error", "PDF_SAVE_FAILED", e.msg)
  ELSE diags

\* run_export_job raised e inside _run_illustrator_phase
IllRaise(e) ==
  /\ diagnostics' = IllustratorPhaseDiagnostics(diagnostics, e)
  /\ Raise(e)
  /\ UNCHANGED <<rsides, outputs, plates_detected>>

\* the except clauses that close the try block of run_jsx: what reaches the
\* caller when the body raised inner
RunJsxRaises(inner) ==
  IF inner.type = "FileNotFoundError"
    THEN Exc("IllustratorError", "Illustrator executable not found")
    ELSE Exc("IllustratorError", "Failed to run Illustrator: " \o inner.msg)

\* IllPrepare that leaves the sentinels of an earlier run in place
IllPrepareKeepsSentinels ==
  /\ jpc = "ill_init"
  /\ \/ /\ IllRaise(Exc("IllustratorError", "Illustrator executable not found"))
        /\ UNCHANGED <<jobJsx, doneMarker, errMarker>>
     \/ /\ jobJsx' = JobId
        /\ UNCHANGED <<doneMarker, errMarker>>
        /\ Goto("ill_launch")
        /\ UNCHANGED reportVars
  /\ UNCHANGED <<asmVars, vectorTool, proc, script, timedOut, returncode,
                 polls, scratch_data, wfiles, scratchFile, gsVars, failVars,
                 results>>

\* IllustratorRunner(), kill_illustrator(), then run_job up to the removal
\* of old sentinels
IllPrepare ==
  /\ jpc = "ill_init"
  /\ \/ /\ IllRaise(Exc("IllustratorError", "Illustrator executable not found"))
        /\ UNCHANGED <<jobJsx, doneMarker, errMarker>>
     \/ /\ jobJsx' = JobId
        /\ doneMarker' = "absent"
        /\ errMarker' = ErrAbsent
        /\ Goto("ill_launch")
        /\ UNCHANGED reportVars
  /\ UNCHANGED <<asmVars, vectorTool, proc, script, timedOut, returncode, polls, scratch_data,
                 wfiles, scratchFile, gsVars, failVars, results>>

\* run_jsx: subprocess.Popen, or the errors it raises
IllLaunch ==
  /\ jpc = "ill_launch"
  /\ \/ /\ proc' = "running"
        /\ script' = "running"
        /\ Goto("ill_wait")
        /\ UNCHANGED reportVars
     \/ /\ \E inner \in {Exc("FileNotFoundError", "exe"), Exc("OSError", "spawn")} :
             IllRaise(RunJsxRaises(inner))
        /\ UNCHANGED <<proc, script>>
  /\ UNCHANGED <<asmVars, vectorTool, jobJsx, timedOut, returncode, polls, scratch_data,
                 fileVars, gsVars, failVars, results>>

\* IllWait whose timeout branch raises without killing the process
IllWaitNoKill ==
  /\ jpc = "ill_wait"
  /\ \/ /\ proc = "exited"
        /\ Goto("ill_sentinel")
        /\ UNCHANGED <<proc, script, timedOut, returncode, reportVars>>
     \/ /\ proc = "running"
        /\ timedOut' = TRUE
        /\ IllRaise(RunJsxRaises(Exc("IllustratorTimeoutError",
                                     "Illustrator timed out")))
        /\ UNCHANGED <<proc, script, returncode>>
  /\ UNCHANGED <<asmVars, vectorTool, jobJsx, polls, scratch_data, fileVars, gsVars, failVars,
                 results>>

\* proc.communicate(timeout) in run_jsx and the except clause of run_job:
\* the process has ended, or the timeout expires while it runs and it is
\* killed
IllWait ==
  /\ jpc = "ill_wait"
  /\ \/ /\ proc = "exited"
        /\ Goto("ill_sentinel")
        /\ UNCHANGED <<proc, script, timedOut, returncode, reportVars>>
     \/ /\ proc = "running"
        /\ proc' = "killed"
        /\ script' = "ended"
        /\ timedOut' = TRUE
        /\ \E c \in ExitCodes : returncode' = <<c>>
        /\ LET e == RunJsxRaises(Exc("IllustratorTimeoutError",
                                     "Illustrator timed out"))
           IN IF e.type = "IllustratorTimeoutError" /\ doneMarker # "absent"
                THEN Goto("ill_sentinel") /\ UNCHANGED reportVars
                ELSE IllRaise(e)
  /\ UNCHANGED <<asmVars, vectorTool, jobJsx, polls, scratch_data, fileVars, gsVars, failVars,
                 results>>

\* IllSentinel that takes exit code 0 of the process for success
IllSentinelTrustsExitCode ==
  /\ jpc = "ill_sentinel"
  /\ IF returncode = <<0>>
       THEN Goto("ill_load") /\ UNCHANGED <<polls, reportVars>>
       ELSE /\ IllRaise(Exc("IllustratorError", "Illustrator exited with error"))
            /\ UNCHANGED polls
  /\ UNCHANGED <<asmVars, vectorTool, proc, script, jobJsx, timedOut, returncode, scratch_data,
                 fileVars, gsVars, failVars, results>>

\* one poll of _wait_for_file(done_sentinel, 30), and what run_job does when
\* it returns False; the count of polls is local to the wait and ends with
\* its return
IllSentinel ==
  /\ jpc = "ill_sentinel"
  /\ IF polls < MaxPolls
       THEN IF doneMarker = "written"
              THEN Goto("ill_load") /\ polls' = 0 /\ UNCHANGED reportVars
              ELSE /\ polls' = polls + 1
                   /\ Goto("ill_sentinel")
                   /\ UNCHANGED reportVars
       ELSE /\ IF errMarker.state # "absent"
                 THEN IllRaise(Exc("IllustratorError",
                                   "JSX reported error: "
                                     \o error_message(
                                          read_error_sentinel(errMarker))))
                 ELSE IllRaise(Exc("IllustratorError",
                                   "JSX did not write completion sentinel"))
            /\ UNCHANGED polls
  /\ UNCHANGED <<asmVars, vectorTool, proc, script, jobJsx, timedOut, returncode, scratch_data,
                 fileVars, gsVars, failVars, results>>

\* report.merge_jsx_scratch_into_report: the sides it adds
merge_sides(sides, data) ==
  IF data = NoData THEN sides ELSE sides \o data.sides

\* run_job loads the scratch JSON and returns; _run_illustrator_phase
\* merges it into the report and verifies the PDF
IllLoad ==
  /\ jpc = "ill_load"
  /\ scratch_data' = run_job_scratch_data(scratchFile)
  /\ rsides' = merge_sides(rsides, scratch_data')
  /\ IF MainPdf \in wfiles
       THEN EndPhase
       ELSE Raise(Exc("RuntimeError", "PDF/X file was not created"))
  /\ UNCHANGED <<asmVars, vectorTool, proc, script, jobJsx, timedOut, returncode, polls, fileVars,
                 gsVars, diagnostics, outputs, plates_detected, failVars,
                 results>>

\* ------------------------------------------------ the external script
\* The script writes between its launch and the end of run_job's wait for
\* the done sentinel; a killed process writes nothing more.
ScriptActive == script = "running" /\ jpc \in {"ill_wait", "ill_sentinel"}

\* the script exports one more artifact into the working directory
EnvWriteArtifact ==
  /\ ScriptActive
  /\ \E f \in ScriptArtifacts \ wfiles : wfiles' = wfiles \cup {f}
  /\ UNCHANGED <<asmVars, vectorTool, ctlVars, illVars, doneMarker, errMarker, scratchFile, gsVars,
                 reportVars, failVars, results>>

\* the script creates the scratch JSON, then completes it
EnvWriteScratch ==
  /\ ScriptActive
  /\ \/ /\ scratchFile.state = "absent"
        /\ scratchFile' \in {ScratchPartial, ScratchUndecodable}
     \/ scratchFile.state = "partial"
          /\ \E c \in ScratchContents : scratchFile' = c
  /\ UNCHANGED <<asmVars, vectorTool, ctlVars, illVars, wfiles, doneMarker, errMarker, gsVars,
                 reportVars, failVars, results>>

\* the script creates the done sentinel, then writes into it
EnvWriteDone ==
  /\ ScriptActive
  /\ \/ doneMarker = "absent" /\ doneMarker' = "empty"
     \/ doneMarker = "empty" /\ doneMarker' = "written"
  /\ UNCHANGED <<asmVars, vectorTool, ctlVars, illVars, wfiles, errMarker, scratchFile, gsVars,
                 reportVars, failVars, results>>

ErrorMessages == {"cannot open document"}

\* what the script may leave as error sentinel: {error:{message}}, JSON
\* with no message, or a file that is not valid JSON
ErrorContents ==
  {ErrFile(m) : m \in ErrorMessages} \cup {ErrNoMessage, ErrUnreadable}

\* the script writes the error sentinel
EnvWriteError ==
  /\ ScriptActive
  /\ errMarker.state = "absent"
  /\ \E c \in ErrorContents : errMarker' = c
  /\ UNCHANGED <<asmVars, vectorTool, ctlVars, illVars, wfiles, doneMarker, scratchFile, gsVars,
                 reportVars, failVars, results>>

\* the script finishes
EnvScriptEnd ==
  /\ ScriptActive
  /\ script' = "ended"
  /\ UNCHANGED <<asmVars, vectorTool, ctlVars, proc, jobJsx, timedOut, returncode, polls,
                 scratch_data, fileVars, gsVars, reportVars, failVars, results>>

\* the launched process exits, with any exit code
EnvProcExit ==
  /\ proc = "running"
  /\ proc' = "exited"
  /\ \E c \in ExitCodes : returncode' = <<c>>
  /\ UNCHANGED <<asmVars, vectorTool, ctlVars, script, jobJsx, timedOut, polls, scratch_data,
                 fileVars, gsVars, reportVars, failVars, results>>

\* ------------------------------------- phase 2: Ghostscript, per side
\* what gs_runner.extract_and_convert_plates may do for one side PDF:
\* return the raw plates and the converted finishes, or raise
GsOutcomes ==
  { [kind |-> "ok", plates |-> {"(Cyan)"}, converted |-> {}],
    [kind |-> "ok", plates |-> {"(Cyan)", "(FOIL)"}, converted |-> {"foil"}],
    [kind |-> "ok", plates |-> {"(Cyan)", "(DIE)"}, converted |-> {"die"}],
    [kind |-> "GhostscriptError", plates |-> {}, converted |-> {}],
    [kind |-> "GhostscriptTimeoutError", plates |-> {}, converted |-> {}] }

\* the sides the loop iterates: the scratch file's, or the default pair
GsLoad ==
  /\ jpc = "gs_load"
  /\ IF load_jsx_scratch_json_raises(scratchFile)
       THEN /\ Raise(Exc("UnicodeDecodeError", "invalid start byte"))
            /\ UNCHANGED <<sides_to_process, sideIdx, sideStatus,
                           all_plates_detected>>
       ELSE /\ LET data == load_jsx_scratch_json(scratchFile)
               IN sides_to_process' =
                    IF data = NoData \/ ~data.hasSides
                      THEN DefaultSides ELSE data.sides
            /\ sideIdx' = 1
            /\ sideStatus' = [i \in 1..Len(sides_to_process') |-> "pending"]
            /\ all_plates_detected' = {}
            /\ Goto("gs_loop")
  /\ UNCHANGED <<asmVars, vectorTool, illVars, fileVars, gsCalls, reportVars, failVars, results>>

\* a loop that steps over every second side
NextSideIndexSkipping(i) == i + 2

\* the for statement: the side that follows side i
NextSideIndex(i) == i + 1

\* _move_side_plates_to_results
move_side_plates(res, converted, side, side_index) ==
  res \cup {get_output_filename(side, side_index, f) : f \in converted}

\* the except clauses of _run_ghostscript_phase: the diagnostic they add
GhostscriptPhaseDiagnostics(diags, kind) ==
  IF kind = "GhostscriptTimeoutError"
    THEN add_diagnostic(diags, "error", "TIMEOUT_GS",
                        "Ghostscript operation timed out")
    ELSE add_diagnostic(diags, "error", "GHOSTSCRIPT_FAILED", "gs failed")

\* one iteration of the loop over sides_to_process
GsSide ==
  /\ jpc = "gs_loop"
  /\ sideIdx <= Len(sides_to_process)
  /\ LET side_info == sides_to_process[sideIdx]
         side == side_info.side
         side_index == side_info.index
     IN IF SidePdf(side, side_index) \notin wfiles
          THEN /\ sideStatus' = [sideStatus EXCEPT ![sideIdx] = "skipped"]
               /\ sideIdx' = NextSideIndex(sideIdx)
               /\ Goto("gs_loop")
               /\ UNCHANGED <<all_plates_detected, gsCalls, results, diagnostics>>
          ELSE /\ gsCalls' = gsCalls \cup {sideIdx}
               /\ \E o \in GsOutcomes :
                    IF o.kind = "ok"
                      THEN /\ all_plates_detected' =
                                all_plates_detected \cup o.plates
                           /\ results' = move_side_plates(results, o.converted,
                                                          side, side_index)
                           /\ sideStatus' =
                                [sideStatus EXCEPT ![sideIdx] = "moved"]
                           /\ sideIdx' = NextSideIndex(sideIdx)
                           /\ Goto("gs_loop")
                           /\ UNCHANGED diagnostics
                      ELSE /\ sideStatus' =
                                [sideStatus EXCEPT ![sideIdx] = "failed"]
                           /\ diagnostics' =
                                GhostscriptPhaseDiagnostics(diagnostics, o.kind)
                           /\ Raise(Exc(o.kind, "gs failed"))
                           /\ UNCHANGED <<all_plates_detected, results, sideIdx>>
  /\ UNCHANGED <<asmVars, vectorTool, sides_to_process, illVars, fileVars, rsides, outputs,
                 plates_detected, failVars>>

\* after the loop: plates into the report, the DPI note, the albedo PNGs
GsFinish ==
  /\ jpc = "gs_loop"
  /\ sideIdx > Len(sides_to_process)
  /\ plates_detected' = all_plates_detected
  /\ diagnostics' = add_diagnostic(diagnostics, "info", "PLATE_DPI", "600")
  /\ results' = results \cup (wfiles \cap AlbedoPngs)
  /\ EndPhase
  /\ UNCHANGED <<asmVars, vectorTool, illVars, fileVars, gsVars, rsides, outputs, failVars>>

\* ------------------------------------------------ phase 3: die vector
\* the SVGs pdfToolbox may write: f"{side}_layer_0_diecut.svg"
ToolDieSvgs == {<<s \o "_layer_0_diecut", "svg">> : s \in SideNames}

\* f"{side}_layer_0_diecut.svg"
ToolDieSvg(side) == <<side \o "_layer_0_diecut", "svg">>

\* what the loop over the sides may do when pdfToolbox is there: the sides
\* whose extract_die_vector raises DieVectorError
ToolFailures == SUBSET SideNames

\* a _run_die_vector_phase that lets the extraction error escape
DieVectorRaisesOnError ==
  /\ jpc = "die"
  /\ IF wfiles \cap JsxDieSvgs # {}
       THEN /\ results' = results \cup (wfiles \cap JsxDieSvgs)
            /\ UNCHANGED vectorTool
            /\ EndPhase
       ELSE \E available \in BOOLEAN :
              IF available
                THEN \E failed \in ToolFailures :
                       /\ vectorTool' = [state |-> "available",
                                         failed |-> failed]
                       /\ results' = results \cup
                            {ToolDieSvg(s) : s \in SideNames \ failed}
                       /\ IF failed # {}
                            THEN Raise(Exc("DieVectorError",
                                           "Failed to extract die vector"))
                            ELSE EndPhase
                ELSE /\ vectorTool' = [state |-> "unavailable", failed |-> {}]
                     /\ UNCHANGED results
                     /\ EndPhase
  /\ UNCHANGED <<asmVars, illVars, fileVars, gsVars, reportVars, failVars>>

\* _run_die_vector_phase: copy the JSX die SVGs, or try pdfToolbox: when it
\* is not available the phase returns, and a DieVectorError of a side is
\* caught and logged inside the loop
DieVector ==
  /\ jpc = "die"
  /\ IF wfiles \cap JsxDieSvgs # {}
       THEN /\ results' = results \cup (wfiles \cap JsxDieSvgs)
            /\ UNCHANGED vectorTool
       ELSE \E available \in BOOLEAN :
              IF available
                THEN \E failed \in ToolFailures :
                       /\ vectorTool' = [state |-> "available",
                                         failed |-> failed]
                       /\ results' = results \cup
                            {ToolDieSvg(s) : s \in SideNames \ failed}
                ELSE /\ vectorTool' = [state |-> "unavailable", failed |-> {}]
                     /\ UNCHANGED results
  /\ EndPhase
  /\ UNCHANGED <<asmVars, illVars, fileVars, gsVars, reportVars, failVars>>

\* ------------------------------------------------- phase 4: the report
\* the add_output calls of _assemble_report over results_dir.glob("*"):
\* key = result_file.stem, filename = result_file.name
RECURSIVE collect_outputs(_, _)
collect_outputs(outs, res) ==
  IF res = {} THEN outs
  ELSE LET result_file == CHOOSE f \in res : TRUE
       IN collect_outputs(add_output(outs, result_file[1], result_file),
                          res \ {result_file})

\* report_builder.build() of the job's builder; the illustrator info and the
\* artboards of the scratch data are not followed and stay as constructed
JobReport(outs) ==
  build(JobId, "", <<>>, rsides, plates_detected, outs, diagnostics)

\* an _assemble_report that raises when the validation finds something
AssembleRaisesOnWarnings ==
  /\ jpc = "assemble"
  /\ outputs' = collect_outputs(outputs, results)
  /\ \/ /\ results' = results \cup {ReportName}
        /\ report_json' = << JobReport(outputs') >>
        /\ validation_errors' = << validate_report(JobReport(outputs')) >>
        /\ IF validation_errors'[1] # <<>>
             THEN Raise(Exc("ValueError", "report validation failed"))
             ELSE EndPhase
     \/ /\ Raise(Exc("OSError", "cannot write report.json"))
        /\ \E opened \in BOOLEAN :
             results' = IF opened THEN results \cup {ReportName} ELSE results
        /\ UNCHANGED <<report_json, validation_errors>>
  /\ UNCHANGED <<illVars, fileVars, gsVars, diagnostics, rsides,
                 plates_detected, failVars, vectorTool>>

\* _assemble_report: register the outputs, save report.json, then build()
\* and validate_report, whose findings are logged only. save() opens the
\* file for writing and then serialises into it: a storage error raises
\* before the file exists, or after it was created, leaving it incomplete
Assemble ==
  /\ jpc = "assemble"
  /\ outputs' = collect_outputs(outputs, results)
  /\ \/ /\ results' = results \cup {ReportName}
        /\ report_json' = << JobReport(outputs') >>
        /\ validation_errors' = << validate_report(JobReport(outputs')) >>
        /\ EndPhase
     \/ /\ Raise(Exc("OSError", "cannot write report.json"))
        /\ \E opened \in BOOLEAN :
             results' = IF opened THEN results \cup {ReportName} ELSE results
        /\ UNCHANGED <<report_json, validation_errors>>
  /\ UNCHANGED <<illVars, fileVars, gsVars, diagnostics, rsides,
                 plates_detected, failVars, vectorTool>>

\* ------------------------------------------------------ failure handling
\* a run() that lets the error of _handle_failure escape
RunPropagatesHandlerError(original, handler_error) ==
  IF handler_error.type # "none" THEN handler_error ELSE original

\* what run() raises after _handle_failure: the except clause of
\* _handle_failure logs its own error, and run() re-raises the original
RunPropagates(original, handler_error) == original

\* _handle_failure, first part: create failed/<job_id>, copy the input,
\* list the working directory
HandleFailure ==
  /\ jpc = "handle_failure"
  /\ \/ /\ failedArchive' = failedArchive \cup {InputName}
        /\ listed' = WorkingFiles
        /\ jpc' = "hf_copy"
        /\ UNCHANGED <<handlerError, propagated>>
     \/ /\ handlerError' = Exc("OSError", "cannot copy input")
        /\ propagated' = RunPropagates(exc, handlerError')
        /\ jpc' = "failed"
        /\ UNCHANGED <<failedArchive, listed>>
  /\ UNCHANGED <<asmVars, vectorTool, phase, trace, exc, illVars, fileVars, gsVars, reportVars,
                 errorReport, results>>

\* HandleFailureCopy that writes error.json without copying the working
\* directory
HandleFailureCopyNoWorking ==
  /\ jpc = "hf_copy"
  /\ failedArchive' = failedArchive \cup {ErrorReportName}
  /\ errorReport' = JobId
  /\ propagated' = RunPropagates(exc, handlerError)
  /\ jpc' = "failed"
  /\ UNCHANGED <<asmVars, vectorTool, phase, trace, exc, illVars, fileVars, gsVars, reportVars,
                 handlerError, listed, results>>

\* _handle_failure, second part: copy the listed files, write error.json;
\* then run() re-raises
HandleFailureCopy ==
  /\ jpc = "hf_copy"
  /\ \/ /\ failedArchive' = failedArchive \cup listed \cup {ErrorReportName}
        /\ errorReport' = JobId
        /\ UNCHANGED handlerError
     \/ /\ failedArchive' = failedArchive \cup listed
        /\ handlerError' = Exc("OSError", "cannot write error.json")
        /\ UNCHANGED errorReport
     \/ /\ \E f \in listed :
             failedArchive' = failedArchive \cup (listed \ {f})
        /\ handlerError' = Exc("OSError", "cannot copy working file")
        /\ UNCHANGED errorReport
  /\ propagated' = RunPropagates(exc, handlerError')
  /\ jpc' = "failed"
  /\ UNCHANGED <<asmVars, vectorTool, phase, trace, exc, illVars, fileVars, gsVars, reportVars,
                 listed, results>>

\* ------------------------------------------------ _wait_for_file
\* Time is counted in sleep intervals of 0.5 s: it advances in time.sleep,
\* and the statements between two sleeps take no time.
WInit ==
  /\ wpc = "idle"
  /\ wfile = "absent"
  /\ wtimeout = 1
  /\ wclock = 0
  /\ wpolls = 0
  /\ wresult = "none"
  /\ wprev = "none"
  /\ wcalls = 0
  /\ wever = FALSE
  /\ wchanged = FALSE

\* _wait_for_file(path, timeout) is called: start = time.time()
WaitCall ==
  /\ wpc \in {"idle", "returned"}
  /\ wcalls < MaxCalls
  /\ wcalls' = wcalls + 1
  /\ \E timeout \in 1..MaxPolls : wtimeout' = timeout
  /\ wclock' = 0
  /\ wpolls' = 0
  /\ wprev' = wresult
  /\ wresult' = "none"
  /\ wever' = (wfile = "written")
  /\ wpc' = "loop"
  /\ UNCHANGED <<wfile, wchanged>>

\* while time.time() - start < timeout: ... return False
WaitLoop ==
  /\ wpc = "loop"
  /\ IF wclock < wtimeout
       THEN wpc' = "exists" /\ UNCHANGED <<wresult, wchanged>>
       ELSE wpc' = "returned" /\ wresult' = "False" /\ wchanged' = FALSE
  /\ UNCHANGED <<wfile, wtimeout, wclock, wpolls, wprev, wcalls, wever>>

\* path.exists(), the left operand of the and
WaitExists ==
  /\ wpc = "exists"
  /\ wpolls' = wpolls + 1
  /\ wpc' = IF wfile # "absent" THEN "stat" ELSE "sleep"
  /\ UNCHANGED <<wfile, wtimeout, wclock, wresult, wprev, wcalls, wever,
                 wchanged>>

\* a size check that removes the file it found
WaitStatConsumes ==
  /\ wpc = "stat"
  /\ IF wfile = "absent"
       THEN /\ wpc' = "raised"
            /\ wresult' = "FileNotFoundError"
            /\ wchanged' = FALSE
            /\ UNCHANGED wfile
       ELSE IF wfile = "written"
         THEN /\ wpc' = "returned"
              /\ wresult' = "True"
              /\ wchanged' = FALSE
              /\ wfile' = "absent"
         ELSE wpc' = "sleep" /\ UNCHANGED <<wresult, wchanged, wfile>>
  /\ UNCHANGED <<wtimeout, wclock, wpolls, wprev, wcalls, wever>>

\* path.stat().st_size > 0, the right operand: stat raises
\* FileNotFoundError when the file is gone, and nothing catches it
WaitStat ==
  /\ wpc = "stat"
  /\ IF wfile = "absent"
       THEN /\ wpc' = "raised"
            /\ wresult' = "FileNotFoundError"
            /\ wchanged' = FALSE
       ELSE IF wfile = "written"
         THEN /\ wpc' = "returned"
              /\ wresult' = "True"
              /\ wchanged' = FALSE
         ELSE wpc' = "sleep" /\ UNCHANGED <<wresult, wchanged>>
  /\ UNCHANGED <<wfile, wtimeout, wclock, wpolls, wprev, wcalls, wever>>

\* time.sleep(0.5)
WaitSleep ==
  /\ wpc = "sleep"
  /\ wclock' = wclock + 1
  /\ wpc' = "loop"
  /\ UNCHANGED <<wfile, wtimeout, wpolls, wresult, wprev, wcalls, wever,
                 wchanged>>

\* the call is between its first and its last statement
Waiting == wpc \in {"loop", "exists", "stat", "sleep"}

\* the other side creates the file, empty
EnvMarkerCreate ==
  /\ wfile = "absent"
  /\ wfile' = "empty"
  /\ wchanged' = TRUE
  /\ UNCHANGED <<wpc, wtimeout, wclock, wpolls, wresult, wprev, wcalls, wever>>

\* the other side writes into the file
EnvMarkerWrite ==
  /\ wfile = "empty"
  /\ wfile' = "written"
  /\ wever' = (wever \/ Waiting)
  /\ wchanged' = TRUE
  /\ UNCHANGED <<wpc, wtimeout, wclock, wpolls, wresult, wprev, wcalls>>

\* the other side removes the file
EnvMarkerRemove ==
  /\ wfile # "absent"
  /\ wfile' = "absent"
  /\ wchanged' = TRUE
  /\ UNCHANGED <<wpc, wtimeout, wclock, wpolls, wresult, wprev, wcalls, wever>>

WNext ==
  \/ WaitCall
  \/ WaitLoop
  \/ WaitExists
  \/ WaitStat
  \/ WaitSleep
  \/ EnvMarkerCreate
  \/ EnvMarkerWrite
  \/ EnvMarkerRemove

\* ------------------------------------------------ ReportBuilder
\* A ReportBuilder under any sequence of at most MaxOps calls.
JobIds == {"J1", "J2"}

RbInit ==
  /\ rbpc = "none"
  /\ passedId = ""
  /\ rbJobId = ""
  /\ rbInfo = ""
  /\ rbArtboards = <<>>
  /\ rbSides = <<>>
  /\ rbPlates = {}
  /\ rbOutputs = {}
  /\ rbDiags = <<>>
  /\ rbBuilt = <<>>
  /\ rbBuiltAt = <<>>
  /\ rbSaved = <<>>
  /\ rbWarnings = <<>>
  /\ rbOps = 0

\* ParserJob(job_id, input_path) creates ReportBuilder(job_id)
RbNew ==
  /\ rbpc = "none"
  /\ \E id \in JobIds : passedId' = id /\ rbJobId' = id
  /\ rbpc' = "open"
  /\ UNCHANGED <<rbInfo, rbArtboards, rbSides, rbPlates, rbOutputs, rbDiags,
                 rbBuilt, rbBuiltAt, rbSaved, rbWarnings, rbOps>>

\* the dict a build() returned, after the builder's lists became artboards,
\* sides and diags and its outputs dict outs: these four objects are shared
\* with the builder and changed in place, while set_illustrator_info and
\* set_plates_detected give the builder new objects
Shared(b, artboards, sides, outs, diags) ==
  IF b = <<>> THEN b
  ELSE << [b[1] EXCEPT !.artboards = artboards, !.sides = sides,
                       !.outputs = outs, !.diagnostics = diags] >>

\* a call is possible
RbCall ==
  /\ rbpc = "open"
  /\ rbOps < MaxOps
  /\ rbOps' = rbOps + 1

\* set_illustrator_info(version)
RbSetInfo ==
  /\ RbCall
  /\ rbInfo' = "28.0"
  /\ UNCHANGED <<rbpc, passedId, rbJobId, rbArtboards, rbSides, rbPlates,
                 rbOutputs, rbDiags, rbBuilt, rbBuiltAt, rbSaved, rbWarnings>>

ArtboardNames == {"Artboard 1"}

\* add_artboard(name, index, bounds)
RbAddArtboard ==
  /\ RbCall
  /\ \E name \in ArtboardNames : rbArtboards' = Append(rbArtboards, name)
  /\ rbBuilt' = Shared(rbBuilt, rbArtboards', rbSides, rbOutputs, rbDiags)
  /\ UNCHANGED <<rbpc, passedId, rbJobId, rbInfo, rbSides, rbPlates,
                 rbOutputs, rbDiags, rbBuiltAt, rbSaved, rbWarnings>>

\* the finishes lists a side may declare
DeclaredFinishes == { <<"albedo", "foil", "uv">>, <<"die", "uv">> }

\* add_side(side, index, finishes)
RbAddSide ==
  /\ RbCall
  /\ \E side \in SideNames, finishes \in DeclaredFinishes :
       rbSides' = Append(rbSides, [side |-> side, index |-> 0,
                                   finishes |-> finishes])
  /\ rbBuilt' = Shared(rbBuilt, rbArtboards, rbSides', rbOutputs, rbDiags)
  /\ UNCHANGED <<rbpc, passedId, rbJobId, rbInfo, rbArtboards, rbPlates,
                 rbOutputs, rbDiags, rbBuiltAt, rbSaved, rbWarnings>>

\* set_plates_detected(plates)
RbSetPlates ==
  /\ RbCall
  /\ rbPlates' = {"(Cyan)", "(FOIL)"}
  /\ UNCHANGED <<rbpc, passedId, rbJobId, rbInfo, rbArtboards, rbSides,
                 rbOutputs, rbDiags, rbBuilt, rbBuiltAt, rbSaved, rbWarnings>>

\* the result files the calls register
OutputFiles ==
  { get_output_filename("front", 0, "foil"),
    get_output_filename("front", 0, "uv"),
    get_output_filename("back", 0, "uv") }

\* add_output(key, filename) as _assemble_report calls it for a file
RbAddOutput ==
  /\ RbCall
  /\ \E f \in OutputFiles : rbOutputs' = add_output(rbOutputs, f[1], f)
  /\ rbBuilt' = Shared(rbBuilt, rbArtboards, rbSides, rbOutputs', rbDiags)
  /\ UNCHANGED <<rbpc, passedId, rbJobId, rbInfo, rbArtboards, rbSides,
                 rbPlates, rbDiags, rbBuiltAt, rbSaved, rbWarnings>>

\* add_info, add_warning, add_error
RbAddDiagnostic ==
  /\ RbCall
  /\ \E d \in { <<"info", "PLATE_DPI">>, <<"error", "TIMEOUT_GS">> } :
       rbDiags' = add_diagnostic(rbDiags, d[1], d[2], "detail")
  /\ rbBuilt' = Shared(rbBuilt, rbArtboards, rbSides, rbOutputs, rbDiags')
  /\ UNCHANGED <<rbpc, passedId, rbJobId, rbInfo, rbArtboards, rbSides,
                 rbPlates, rbOutputs, rbBuiltAt, rbSaved, rbWarnings>>

\* build() is called and its result kept by the caller
RbBuild ==
  /\ RbCall
  /\ rbBuilt' = << build(rbJobId, rbInfo, rbArtboards, rbSides, rbPlates,
                         rbOutputs, rbDiags) >>
  /\ rbBuiltAt' = rbBuilt'
  /\ UNCHANGED <<rbpc, passedId, rbJobId, rbInfo, rbArtboards, rbSides,
                 rbPlates, rbOutputs, rbDiags, rbSaved, rbWarnings>>

\* save(output_path): to_json() dumps build() into the file
RbSave ==
  /\ RbCall
  /\ rbSaved' = << build(rbJobId, rbInfo, rbArtboards, rbSides, rbPlates,
                         rbOutputs, rbDiags) >>
  /\ UNCHANGED <<rbpc, passedId, rbJobId, rbInfo, rbArtboards, rbSides,
                 rbPlates, rbOutputs, rbDiags, rbBuilt, rbBuiltAt, rbWarnings>>

\* validate_report(build()), as _assemble_report calls it
RbValidate ==
  /\ RbCall
  /\ rbWarnings' = << validate_report(build(rbJobId, rbInfo, rbArtboards,
                                            rbSides, rbPlates, rbOutputs,
                                            rbDiags)) >>
  /\ UNCHANGED <<rbpc, passedId, rbJobId, rbInfo, rbArtboards, rbSides,
                 rbPlates, rbOutputs, rbDiags, rbBuilt, rbBuiltAt, rbSaved>>

RbNext ==
  \/ RbNew
  \/ RbSetInfo
  \/ RbAddArtboard
  \/ RbAddSide
  \/ RbSetPlates
  \/ RbAddOutput
  \/ RbAddDiagnostic
  \/ RbBuild
  \/ RbSave
  \/ RbValidate

\* ------------------------------------------------ get_output_filename
\* the finish and plate names of the naming convention
Finishes ==
  {"albedo", "uv", "foil", "emboss", "die", "diecut_mask", "diecut_svg"}

NameTuples == [side : SideNames, index : 0..MaxIndex, finish : Finishes]

NoFile == <<"", "">>

\* the tuples are drawn, the function is not applied yet
NInitDrawn ==
  /\ npc = "drawn"
  /\ nameA \in NameTuples
  /\ nameB \in NameTuples
  /\ fileA = NoFile
  /\ fileB = NoFile
  /\ fileA2 = NoFile

\* the one pair of tuples the other specifications start with
NInit ==
  /\ NInitDrawn
  /\ nameA = [side |-> "front", index |-> 0, finish |-> "albedo"]
  /\ nameB = nameA

\* get_output_filename is called for both tuples
NameApply ==
  /\ npc = "drawn"
  /\ fileA' = get_output_filename(nameA.side, nameA.index, nameA.finish)
  /\ fileB' = get_output_filename(nameB.side, nameB.index, nameB.finish)
  /\ npc' = "applied"
  /\ UNCHANGED <<nameA, nameB, fileA2>>

\* get_output_filename is called for the first tuple once more
NameApplyAgain ==
  /\ npc = "applied"
  /\ fileA2' = get_output_filename(nameA.side, nameA.index, nameA.finish)
  /\ npc' = "again"
  /\ UNCHANGED <<nameA, nameB, fileA, fileB>>

NNext ==
  \/ NameApply
  \/ NameApplyAgain

\* ------------------------------------------------ asset requests
AInit ==
  /\ apc = "idle"
  /\ aStatus = 0
  /\ aHeld = FALSE

\* the file names a client may ask for
AssetNames == {<<"report", "json">>, <<"front_layer_0_albedo", "png">>,
               <<"notes", "txt">>}

\* filename.lower().endswith((".png", ".svg", ".json"))
AssetAllowed(f) == f[2] \in {"png", "svg", "json"}

\* a client issues GET /assets/<job_id>/<filename>
AssetArrive ==
  /\ apc = "idle"
  /\ apc' = "requested"
  /\ UNCHANGED <<aStatus, aHeld, svars>>

\* a get_asset that answers busy while a job holds JOB_LOCK
GetAssetBusy ==
  /\ apc = "requested"
  /\ \E j \in Reqs, f \in AssetNames, other_exists \in BOOLEAN :
       LET exists == IF f = ReportName THEN j \in reports ELSE other_exists
       IN aStatus' = IF JOB_LOCK THEN 409
                     ELSE IF ~exists THEN 404
                     ELSE IF ~AssetAllowed(f) THEN 403
                     ELSE 200
  /\ aHeld' = JOB_LOCK
  /\ apc' = "done"
  /\ UNCHANGED svars

\* get_asset(job_id, filename): 404 when results/<job_id>/<filename> does
\* not exist, 403 for another extension than png, svg, json, else the file;
\* files other than report.json are there or not
GetAsset ==
  /\ apc = "requested"
  /\ \E j \in Reqs, f \in AssetNames, other_exists \in BOOLEAN :
       LET exists == IF f = ReportName THEN j \in reports ELSE other_exists
       IN aStatus' = IF ~exists THEN 404
                     ELSE IF ~AssetAllowed(f) THEN 403
                     ELSE 200
  /\ aHeld' = JOB_LOCK
  /\ apc' = "done"
  /\ UNCHANGED svars

\* the /parse requests together with an asset request
ANext ==
  \/ SNext /\ UNCHANGED avars
  \/ AssetArrive
  \/ GetAsset

\* ----------------------------- config.py: detect_finish_from_name
\* Names are sequences of one-character strings.
UpperCase ==
  <<"A", "B", "C", "D", "E", "F", "G", "H", "I", "J", "K", "L", "M",
    "N", "O", "P", "Q", "R", "S", "T", "U", "V", "W", "X", "Y", "Z">>

LowerCase ==
  <<"a", "b", "c", "d", "e", "f", "g", "h", "i", "j", "k", "l", "m",
    "n", "o", "p", "q", "r", "s", "t", "u", "v", "w", "x", "y", "z">>

\* str.lower(), character by character
lower_char(c) ==
  IF \E i \in DOMAIN UpperCase : UpperCase[i] = c
    THEN LowerCase[CHOOSE i \in DOMAIN UpperCase : UpperCase[i] = c]
    ELSE c

lower(s) == [i \in DOMAIN s |-> lower_char(s[i])]

\* token in name_lower: the token occurs as a contiguous run of characters
Contains(s, token) ==
  \E i \in 1..(Len(s) - Len(token) + 1) :
    SubSeq(s, i, i + Len(token) - 1) = token

\* TOKENS, in the order of the dict literal
TOKENS ==
  << [finish |-> "FOIL",
      tokens |-> << <<"f", "o", "i", "l">>,
                    <<"m", "e", "t", "a", "l">>,
                    <<"m", "e", "t", "a", "l", "l", "i", "c">> >>],
     [finish |-> "UV",
      tokens |-> << <<"u", "v">>,
                    <<"s", "p", "o", "t", "_", "u", "v">>,
                    <<"v", "a", "r", "n", "i", "s", "h">>,
                    <<"g", "l", "o", "s", "s">> >>],
     [finish |-> "EMBOSS",
      tokens |-> << <<"e", "m", "b", "o", "s", "s">>,
                    <<"d", "e", "b", "o", "s", "s">>,
                    <<"h", "e", "i", "g", "h", "t">> >>],
     [finish |-> "DIE",
      tokens |-> << <<"d", "i", "e">>,
                    <<"d", "i", "e", "c", "u", "t">>,
                    <<"d", "i", "e", "_", "c", "u", "t">> >>] >>

\* Python's None
None == "None"

\* the loop over TOKENS.items() from entry k on: the first finish one of
\* whose tokens occurs in name_lower
RECURSIVE detect_from(_, _)
detect_from(k, name_lower) ==
  IF k > Len(TOKENS) THEN None
  ELSE IF \E j \in DOMAIN TOKENS[k].tokens :
            Contains(name_lower, TOKENS[k].tokens[j])
    THEN TOKENS[k].finish
  ELSE detect_from(k + 1, name_lower)

\* detect_finish_from_name that compares without lower-casing
detect_finish_case_sensitive(name) ==
  IF name = <<>> THEN None ELSE detect_from(1, name)

detect_finish_from_name(name) ==
  IF name = <<>> THEN None ELSE detect_from(1, lower(name))

\* the names the function is applied to: an optional opening, a word, an
\* optional ending
NameOpenings == {<<>>, <<"(">>, <<"S", "p", "o", "t", "_">>}

NameEndings == {<<>>, <<")">>, <<" ", "2">>}

NameWords ==
  { <<>>,
    <<"F", "O", "I", "L">>,
    <<"F", "o", "i", "l">>,
    <<"M", "e", "t", "a", "l", "l", "i", "c">>,
    <<"U", "V">>,
    <<"u", "v">>,
    <<"G", "l", "o", "s", "s">>,
    <<"U", "V", "_", "F", "o", "i", "l">>,
    <<"E", "M", "B", "O", "S", "S">>,
    <<"H", "e", "i", "g", "h", "t">>,
    <<"D", "i", "e", "_", "E", "m", "b", "o", "s", "s">>,
    <<"D", "I", "E">>,
    <<"D", "i", "e", "C", "u", "t">>,
    <<"M", "e", "d", "i", "e", "v", "a", "l">>,
    <<"C", "y", "a", "n">>,
    <<"M", "a", "g", "e", "n", "t", "a">>,
    <<"Y", "e", "l", "l", "o", "w">>,
    <<"B", "l", "a", "c", "k">>,
    <<"F", "o", " ", "i", "l">> }

DrawnNames ==
  {o \o w \o e : o \in NameOpenings, w \in NameWords, e \in NameEndings}

DInitDrawn ==
  /\ dName \in DrawnNames
  /\ dpc = "drawn"
  /\ dResult = None

DInit ==
  /\ dName = <<>>
  /\ dpc = "drawn"
  /\ dResult = None

\* the function is applied to the drawn name
DetectApply ==
  /\ dpc = "drawn"
  /\ dResult' = detect_finish_from_name(dName)
  /\ dpc' = "done"
  /\ UNCHANGED dName

DNext == DetectApply

\* ------------------------------------------------ app.py: /parse
\* The handler of src/parser-service/app.py, which drives Illustrator itself:
\* it writes scripts/runtime/job.jsx, launches the script and waits for the
\* result file.
LInit ==
  /\ lLock = FALSE
  /\ lpc = [r \in Reqs |-> "idle"]
  /\ lStatus = [r \in Reqs |-> 0]
  /\ lId = [r \in Reqs |-> 0]
  /\ lNextId = 1
  /\ lIncoming = {}
  /\ lJobJsx = 0
  /\ lScript = [r \in Reqs |-> "none"]
  /\ lRead = [r \in Reqs |-> 0]

LGoto(r, pc) == lpc' = [lpc EXCEPT ![r] = pc]

LAnswer(r, s) == lStatus' = [lStatus EXCEPT ![r] = s]

\* a client issues POST /parse
LArrive(r) ==
  /\ lpc[r] = "idle"
  /\ LGoto(r, "validate")
  /\ UNCHANGED <<lLock, lStatus, lId, lNextId, lIncoming, lJobJsx, lScript,
                 lRead>>

\* auth, file, extension and size checks
LValidate(r) ==
  /\ lpc[r] = "validate"
  /\ \E i \in Inputs :
       IF ValidationStatus(i) # 0
         THEN LAnswer(r, ValidationStatus(i)) /\ LGoto(r, "done")
         ELSE LGoto(r, "lock") /\ UNCHANGED lStatus
  /\ UNCHANGED <<lLock, lId, lNextId, lIncoming, lJobJsx, lScript, lRead>>

\* if not JOB_LOCK.acquire(blocking=False): 409; else job_id = uuid4()
LTryAcquire(r) ==
  /\ lpc[r] = "lock"
  /\ IF ~lLock
       THEN /\ lLock' = TRUE
            /\ lId' = [lId EXCEPT ![r] = lNextId]
            /\ lNextId' = lNextId + 1
            /\ LGoto(r, "save")
            /\ UNCHANGED lStatus
       ELSE /\ LAnswer(r, 409)
            /\ LGoto(r, "done")
            /\ UNCHANGED <<lLock, lId, lNextId>>
  /\ UNCHANGED <<lIncoming, lJobJsx, lScript, lRead>>

\* f.save(tmp); os.replace(tmp, incoming_path)
LSave(r) ==
  /\ lpc[r] = "save"
  /\ \/ lIncoming' = lIncoming \cup {r} /\ LGoto(r, "write_jsx")
     \/ UNCHANGED lIncoming /\ LGoto(r, "except")
  /\ UNCHANGED <<lLock, lStatus, lId, lNextId, lJobJsx, lScript, lRead>>

\* _write_runtime_job_jsx(incoming_path, result_path, job_id)
LWriteJsx(r) ==
  /\ lpc[r] = "write_jsx"
  /\ \/ lJobJsx' = lId[r] /\ LGoto(r, "launch")
     \/ UNCHANGED lJobJsx /\ LGoto(r, "except")
  /\ UNCHANGED <<lLock, lStatus, lId, lNextId, lIncoming, lScript, lRead>>

\* _kill_illustrator() stops every Illustrator process; then Popen starts
\* one for this job, or raises
LLaunch(r) ==
  /\ lpc[r] = "launch"
  /\ LET killed == [q \in Reqs |->
                      IF lScript[q] = "running" THEN "killed" ELSE lScript[q]]
     IN \/ /\ lScript' = [killed EXCEPT ![r] = "running"]
           /\ LGoto(r, "wait")
        \/ /\ lScript' = killed
           /\ LGoto(r, "except")
  /\ UNCHANGED <<lLock, lStatus, lId, lNextId, lIncoming, lJobJsx, lRead>>

\* the script of request r includes job.jsx
EnvScriptReads(r) ==
  /\ lScript[r] = "running"
  /\ lRead[r] = 0
  /\ lRead' = [lRead EXCEPT ![r] = IF lJobJsx = 0 THEN -1 ELSE lJobJsx]
  /\ UNCHANGED <<lLock, lpc, lStatus, lId, lNextId, lIncoming, lJobJsx,
                 lScript>>

\* _wait_for_file(result_path, PARSE_TIMEOUT_SEC): the result of this job
\* is there, written by a script that read this job's description, and is
\* answered (or its assets are missing); or the wait times out
LWait(r) ==
  /\ lpc[r] = "wait"
  /\ \/ /\ lRead[r] = lId[r]
        /\ \/ LAnswer(r, 200) /\ LGoto(r, "finally")
           \/ UNCHANGED lStatus /\ LGoto(r, "except")
     \/ UNCHANGED lStatus /\ LGoto(r, "except")
  /\ UNCHANGED <<lLock, lId, lNextId, lIncoming, lJobJsx, lScript, lRead>>

\* except Exception: move the upload to failed, answer 500
LExcept(r) ==
  /\ lpc[r] = "except"
  /\ lIncoming' = lIncoming \ {r}
  /\ LAnswer(r, 500)
  /\ LGoto(r, "finally")
  /\ UNCHANGED <<lLock, lId, lNextId, lJobJsx, lScript, lRead>>

\* finally: JOB_LOCK.release()
LRelease(r) ==
  /\ lpc[r] = "finally"
  /\ lLock' = FALSE
  /\ LGoto(r, "tidy")
  /\ UNCHANGED <<lStatus, lId, lNextId, lIncoming, lJobJsx, lScript, lRead>>

\* finally, after the release: move the upload to processed and remove
\* scripts/runtime/job.jsx if it exists, both best effort
LTidy(r) ==
  /\ lpc[r] = "tidy"
  /\ lIncoming' = lIncoming \ {r}
  /\ \/ lJobJsx' = 0
     \/ UNCHANGED lJobJsx
  /\ LGoto(r, "done")
  /\ UNCHANGED <<lLock, lStatus, lId, lNextId, lScript, lRead>>

LNext ==
  \E r \in Reqs :
    \/ LArrive(r)
    \/ LValidate(r)
    \/ LTryAcquire(r)
    \/ LSave(r)
    \/ LWriteJsx(r)
    \/ LLaunch(r)
    \/ EnvScriptReads(r)
    \/ LWait(r)
    \/ LExcept(r)
    \/ LRelease(r)
    \/ LTidy(r)

\* ------------------------------------------------------ specifications
JNext ==
  \/ EnterPhase
  \/ IllPrepare
  \/ IllLaunch
  \/ IllWait
  \/ IllSentinel
  \/ IllLoad
  \/ EnvWriteArtifact
  \/ EnvWriteScratch
  \/ EnvWriteDone
  \/ EnvWriteError
  \/ EnvScriptEnd
  \/ EnvProcExit
  \/ GsLoad
  \/ GsSide
  \/ GsFinish
  \/ DieVector
  \/ Assemble
  \/ HandleFailure
  \/ HandleFailureCopy

\* a job directory without files of an earlier run
JInitFresh == JInit /\ doneMarker = "absent" /\ errMarker = ErrAbsent

Init == SInit /\ JInitFresh /\ WInit /\ RbInit /\ NInit /\ AInit /\ LInit
          /\ DInit

\* a job whose working directory may hold sentinels of an earlier run
InitExport == SInit /\ JInit /\ WInit /\ RbInit /\ NInit /\ AInit /\ LInit
          /\ DInit

Next == SNext /\ UNCHANGED <<jvars, wvars, rbvars, nvars, avars, lvars,
               staleMarkers, dvars>>

Spec == Init /\ [][Next]_vars

NextJob == JNext /\ UNCHANGED <<svars, wvars, rbvars, nvars, avars, lvars,
               staleMarkers, dvars>>

SpecJob == Init /\ [][NextJob]_vars

NextWait == WNext /\ UNCHANGED <<svars, jvars, rbvars, nvars, avars, lvars,
               staleMarkers, dvars>>

SpecWait == Init /\ [][NextWait]_vars

NextReport == RbNext /\ UNCHANGED <<svars, jvars, wvars, nvars, avars, lvars,
               staleMarkers, dvars>>

SpecReport == Init /\ [][NextReport]_vars

InitNames ==
  SInit /\ JInitFresh /\ WInit /\ RbInit /\ NInitDrawn /\ AInit /\ LInit
    /\ DInit

NextNames == NNext /\ UNCHANGED <<svars, jvars, wvars, rbvars, avars, lvars,
               staleMarkers, dvars>>

SpecNames == InitNames /\ [][NextNames]_vars

\* the steps of the handler thread of request r, once the request is there
ReqStep(r) ==
  /\ \/ Validate(r)
     \/ TryAcquire(r)
     \/ SaveUpload(r)
     \/ RunJob(r)
     \/ LoadReport(r)
     \/ ExceptHandler(r)
     \/ Release(r)
     \/ Cleanup(r)
  /\ UNCHANGED <<jvars, wvars, rbvars, nvars, avars, lvars,
               staleMarkers, dvars>>

\* the server runs every handler thread: a thread that can take its next
\* step takes it; run_job returns or raises, its tools being bounded by
\* their timeouts
SpecLive == Init /\ [][Next]_vars /\ \A r \in Reqs : WF_vars(ReqStep(r))

\* the steps of run() itself, without those of the external script
JobStep ==
  /\ \/ EnterPhase
     \/ IllPrepare
     \/ IllLaunch
     \/ IllWait
     \/ IllSentinel
     \/ IllLoad
     \/ GsLoad
     \/ GsSide
     \/ GsFinish
     \/ DieVector
     \/ Assemble
     \/ HandleFailure
     \/ HandleFailureCopy
  /\ UNCHANGED <<svars, wvars, rbvars, nvars, avars, lvars,
               staleMarkers, dvars>>

\* run() goes on whenever it can: every tool call returns, raises or hits
\* its timeout
SpecJobLive == Init /\ [][NextJob]_vars /\ WF_vars(JobStep)

\* the steps of _wait_for_file itself, without those of the other side
WaitStep ==
  /\ \/ WaitLoop
     \/ WaitExists
     \/ WaitStat
     \/ WaitSleep
  /\ UNCHANGED <<svars, jvars, rbvars, nvars, avars, lvars,
               staleMarkers, dvars>>

SpecWaitLive == Init /\ [][NextWait]_vars /\ WF_vars(WaitStep)

\* run() up to the end of its export phase: run_export_job and the script
ExportNext ==
  \/ EnterPhase /\ phase = "created"
  \/ IllPrepare
  \/ IllLaunch
  \/ IllWait
  \/ IllSentinel
  \/ IllLoad
  \/ EnvWriteArtifact
  \/ EnvWriteScratch
  \/ EnvWriteDone
  \/ EnvWriteError
  \/ EnvScriptEnd
  \/ EnvProcExit

NextExport ==
  ExportNext /\ UNCHANGED <<svars, wvars, rbvars, nvars, avars, lvars,
                            staleMarkers, dvars>>

SpecExport == InitExport /\ [][NextExport]_vars

InitFinish ==
  SInit /\ JInitFresh /\ WInit /\ RbInit /\ NInit /\ AInit /\ LInit
    /\ DInitDrawn

NextFinish ==
  DNext /\ UNCHANGED <<svars, jvars, wvars, rbvars, nvars, avars, lvars,
                       staleMarkers>>

SpecFinish == InitFinish /\ [][NextFinish]_vars

NextLegacy ==
  LNext /\ UNCHANGED <<svars, jvars, wvars, rbvars, nvars, avars, staleMarkers,
                    dvars>>

SpecLegacy == Init /\ [][NextLegacy]_vars

NextAssets ==
  ANext /\ UNCHANGED <<jvars, wvars, rbvars, nvars, lvars, staleMarkers,
                    dvars>>

SpecAssets == Init /\ [][NextAssets]_vars

\* ------------------------------------------------------------ properties
\* C1: at most one /parse request is between acquiring JOB_LOCK and
\* releasing it, in every reachable state
C1_MutualExclusion == Cardinality({r \in Reqs : InPipeline(r)}) <= 1

\* a request is inside the pipeline and another one was turned away as busy
C1_Witness ==
  \E r, q \in Reqs : r # q /\ rpc[r] = "run" /\ busyAt[q] /\ rpc[q] = "done"

\* C2: a request that tries the lock while it is held is answered 409
\* "busy" in that very step, without taking or waiting for the lock, and
\* never runs the pipeline; a request that finds the lock free is admitted;
\* so of two calls with no release in between exactly one is admitted
C2_SingleFlight ==
  [][ /\ \A r \in Reqs :
           (rpc[r] = "lock" /\ rpc'[r] # "lock") =>
             IF JOB_LOCK
               THEN /\ rpc'[r] = "done"
                    /\ status'[r] = 409
                    /\ body'[r] = "busy"
                    /\ JOB_LOCK'
                    /\ acquired'[r] = 0
               ELSE /\ rpc'[r] = "save"
                    /\ JOB_LOCK'
                    /\ acquired'[r] = 1
      /\ \A r \in Reqs :
           status'[r] = 409 =>
             /\ rpc'[r] = "done"
             /\ ~ran'[r]
             /\ job_id'[r] = 0
             /\ \E q \in Reqs \ {r} : acquired'[q] = 1 ]_vars

\* two valid calls: one is running the pipeline, the other got busy
C2_Witness ==
  \E r, q \in Reqs :
    /\ r # q
    /\ ValidationStatus(reqIn[r]) = 0 /\ ValidationStatus(reqIn[q]) = 0
    /\ ran[r] /\ InPipeline(r)
    /\ status[q] = 409 /\ ~ran[q]

\* C3: an admitted request holds the lock from its acquire to its single
\* release, it has released exactly once when it leaves on any path, and a
\* request that was not admitted never releases
C3_LockHeldAndReleasedOnce ==
  \A r \in Reqs :
    /\ released[r] <= acquired[r]
    /\ acquired[r] <= 1
    /\ InPipeline(r) => (JOB_LOCK /\ acquired[r] = 1 /\ released[r] = 0)
    /\ rpc[r] \in {"cleanup", "done"} => released[r] = acquired[r]
    /\ status[r] \in {400, 401, 409, 413} => released[r] = 0

\* a request whose upload could not be saved has released once, and a busy
\* one has not released
C3_Witness ==
  \E r, q \in Reqs :
    /\ rpc[r] = "done" /\ status[r] = 500 /\ ~ran[r] /\ released[r] = 1
    /\ status[q] = 409 /\ released[q] = 0

FullTrace ==
  << <<"compositing", "start">>, <<"compositing", "end">>,
     <<"separating", "start">>, <<"separating", "end">>,
     <<"extracting_die", "start">>, <<"extracting_die", "end">>,
     <<"assembling", "start">>, <<"assembling", "end">> >>

IsPrefix(s, t) == Len(s) <= Len(t) /\ s = SubSeq(t, 1, Len(s))

\* C4: the phases of one job start and end in the order compositing,
\* separating, extracting_die, assembling, each at most once and each after
\* its predecessor ended; a raise is the last event of the job
C4_PhaseOrder ==
  LET n == Len(trace)
  IN IF n > 0 /\ trace[n][2] = "raise"
       THEN /\ IsPrefix(SubSeq(trace, 1, n - 1), FullTrace)
            /\ n >= 2
            /\ trace[n - 1] = <<trace[n][1], "start">>
       ELSE IsPrefix(trace, FullTrace)

\* a job ran all four phases and returned
C4_Witness == jpc = "done" /\ trace = FullTrace

FrontMovedBackFailed ==
  \E i, j \in 1..Len(sides_to_process) :
    /\ sides_to_process[i].side = "front" /\ sideStatus[i] = "moved"
    /\ sides_to_process[j].side = "back" /\ sideStatus[j] = "failed"

\* C5: when the separator fails for back and succeeds for front, the job
\* ends done, not failed, with the plates of the results directory in the
\* output map and an error diagnostic recorded
C5_SideIndependence ==
  (jpc \in {"done", "failed"} /\ FrontMovedBackFailed) =>
    /\ jpc = "done"
    /\ \A f \in results \ {ReportName} : <<f[1], f>> \in outputs
    /\ \E k \in 1..Len(diagnostics) : diagnostics[k].level = "error"

GsPhaseOver ==
  \/ phase = "separating" /\ jpc \notin {"gs_load", "gs_loop"}
  \/ phase \in {"extracting_die", "assembling", "done"}

\* C6: when the separating phase is over, the separator was called for
\* every declared side whose side PDF exists
C6_EverySideAttempted ==
  GsPhaseOver =>
    \A i \in 1..Len(sides_to_process) :
      SidePdf(sides_to_process[i].side, sides_to_process[i].index) \in wfiles
        => i \in gsCalls

\* C7: when the assembling phase has started, every side of the job was
\* processed: its plates moved, skipped for a missing PDF, or failed
C7_AssemblyAfterAllSides ==
  phase = "assembling" =>
    /\ Len(sideStatus) = Len(sides_to_process)
    /\ \A i \in 1..Len(sides_to_process) :
         sideStatus[i] \in {"moved", "skipped", "failed"}

\* assembly started after one side was skipped and the next one separated
C7_Witness ==
  /\ phase = "assembling"
  /\ Len(sides_to_process) >= 2
  /\ sideStatus[1] = "skipped"
  /\ sideStatus[2] = "moved"

ArchiveComplete ==
  /\ InputName \in failedArchive
  /\ WorkingFiles \subseteq failedArchive
  /\ ErrorReportName \in failedArchive
  /\ errorReport = JobId

C9_OriginalExceptionPropagates ==
  jpc = "failed" => (propagated = exc /\ exc # NoExc)

\* run() raised after _handle_failure had failed
C9_Witness == jpc = "failed" /\ handlerError # NoExc /\ propagated = exc

\* C10: when the timeout expired with no done sentinel, the export fails
\* with IllustratorTimeoutError
C10_TimeoutErrorType ==
  (timedOut /\ phase = "compositing" /\ exc # NoExc /\ doneMarker = "absent")
    => exc.type = "IllustratorTimeoutError"

\* the job failed after the timeout of the Illustrator process, and the
\* script had left a scratch file that is not complete JSON
FailedOnTimeoutWithPartialScratch ==
  /\ jpc = "failed"
  /\ timedOut
  /\ phase = "compositing"
  /\ scratchFile.state \in {"partial", "undecodable"}

C12_TimeoutRaceSucceeds ==
  (timedOut /\ doneMarker = "written") => exc.type # "IllustratorError"

\* C13: the launched process runs only while run_jsx waits for it: when
\* run_jsx is left the process has exited or, if the timeout expired while
\* it ran, has been killed; and it is killed only when the timeout expired
C13_KilledOnTimeoutOnly ==
  /\ proc = "running" => jpc = "ill_wait"
  /\ timedOut => proc = "killed"
  /\ proc = "killed" => timedOut

\* run_export_job has raised after the timeout, and the process is killed
C13_Witness ==
  /\ jpc \in {"handle_failure", "hf_copy", "failed"}
  /\ phase = "compositing"
  /\ timedOut
  /\ proc = "killed"

\* run_export_job has returned its result dict to _run_illustrator_phase
RunExportReturned ==
  \/ jpc = "ill_load"
  \/ phase = "compositing" /\ (jpc = "next" \/ exc.type = "RuntimeError")
  \/ phase \in {"separating", "extracting_die", "assembling", "done"}

\* run_export_job has raised
RunExportRaised == phase = "compositing" /\ exc.type = "IllustratorError"

C15_ErrorMarkerMessage ==
  (RunExportRaised /\ proc = "exited"
     /\ errMarker.state = "complete" /\ errMarker.hasMessage)
    => exc = Exc("IllustratorError",
                 "JSX reported error: " \o errMarker.message)

\* the script wrote its message into the error sentinel and no done
\* sentinel, the process exited, and run_export_job raised with the message
C15_Witness ==
  /\ RunExportRaised
  /\ proc = "exited"
  /\ doneMarker = "absent"
  /\ errMarker = ErrFile("cannot open document")
  /\ exc.msg = "JSX reported error: cannot open document"

\* there is no scratch file, or it cannot be read as JSON
ScratchMissing == scratchFile.state \in {"absent", "partial", "undecodable"}

\* the Ghostscript phase has chosen the sides it iterates
SidesChosen ==
  \/ phase = "separating" /\ jpc # "gs_load"
  \/ phase \in {"extracting_die", "assembling", "done"}

\* C16: with no readable scratch file, a run_export_job that saw the done
\* sentinel returns scratch_data None, the compositing phase does not fail
\* when the PDF exists, and the Ghostscript phase does not fail on the
\* file and iterates exactly the default sides front/0 and back/0
C16_ScratchOptional ==
  ScratchMissing =>
    /\ exc.type # "UnicodeDecodeError"
    /\ (RunExportReturned /\ jpc # "ill_load") => scratch_data = NoData
    /\ (RunExportReturned /\ jpc # "ill_load" /\ MainPdf \in wfiles
          /\ phase = "compositing") => (exc = NoExc /\ jpc = "next")
    /\ SidesChosen =>
         /\ sides_to_process = DefaultSides
         /\ sides_to_process[1].side = "front" /\ sides_to_process[1].index = 0
         /\ sides_to_process[2].side = "back" /\ sides_to_process[2].index = 0

\* the call of _wait_for_file has ended, by a return or by an exception
WaitEnded == wpc \in {"returned", "raised"} /\ wcalls > 0

\* C17: _wait_for_file returns True only if the file had non-zero size at
\* some time of the call, after at most timeout sleeps; and a call during
\* which the file never had non-zero size ends by returning False, after
\* timeout sleeps
C17_AwaitResult ==
  WaitEnded =>
    /\ wresult = "True" => (wever /\ wclock < wtimeout)
    /\ ~wever => (wresult = "False" /\ wclock = wtimeout)

\* C18: _wait_for_file never raises: a call that ended returned True or
\* False
C18_AwaitNeverRaises ==
  /\ wpc # "raised"
  /\ WaitEnded => wresult \in {"True", "False"}

\* C19: no step of _wait_for_file changes the awaited file, and a call that
\* follows a call that returned True, with the file unchanged since, returns
\* True at its first poll, before any sleep
C19_AwaitRepeatable ==
  [][ /\ wpc' # wpc => wfile' = wfile
      /\ (wpc' \in {"returned", "raised"} /\ ~(wpc \in {"returned", "raised"})
            /\ wprev = "True" /\ ~wchanged)
           => (wresult' = "True" /\ wpolls' = 1 /\ wclock' = 0) ]_vars

\* a second call, made after a call that returned True, returned True at
\* its first poll
C19_Witness ==
  /\ wcalls = 2
  /\ wpc = "returned"
  /\ wprev = "True"
  /\ wresult = "True"
  /\ wpolls = 1
  /\ wfile = "written"

\* C20: once a run_export_job that launched the script has returned or
\* raised, neither the done sentinel nor the error sentinel of the job is
\* left in its working directory
C20_MarkersDeleted ==
  (proc # "none" /\ jpc # "ill_load" /\ (RunExportReturned \/ RunExportRaised))
    => (DoneName \notin WorkingFiles /\ ErrorName \notin WorkingFiles)

\* C21: no file of the job is in two of the roots working/<job_id>,
\* results/<job_id> and failed/<job_id> at the same time
C21_ExclusiveRoots ==
  /\ WorkingFiles \cap results = {}
  /\ WorkingFiles \cap failedArchive = {}
  /\ results \cap failedArchive = {}

\* the keys of the manifest
ManifestKeys ==
  {"jobId", "illustrator", "artboards", "sides", "plates_detected",
   "outputs", "diagnostics"}

\* C22: whatever calls were made on the builder, a saved report carries
\* the job id that was passed to the pipeline and exactly the manifest keys
C22_ReportIdAndKeys ==
  rbSaved # <<>> =>
    /\ rbSaved[1].jobId = passedId
    /\ DOMAIN rbSaved[1] = ManifestKeys

\* a report was saved for job J2 after sides, outputs and diagnostics were
\* added
C22_Witness ==
  /\ rbSaved # <<>>
  /\ passedId = "J2"
  /\ rbSaved[1].jobId = "J2"
  /\ Len(rbSaved[1].sides) > 0
  /\ rbSaved[1].outputs # {}
  /\ Len(rbSaved[1].diagnostics) > 0

\* C23 as stated: two distinct (side, index, finish) tuples never get the
\* same filename, and a tuple gets the same filename at every call
C23_FilenameInjective ==
  /\ (npc \in {"applied", "again"} /\ nameA # nameB) => fileA # fileB
  /\ npc = "again" => fileA2 = fileA

\* a tuple with the finish names die and diecut replaced by diecut_mask
CanonicalTuple(n) ==
  [n EXCEPT !.finish = IF @ \in {"die", "diecut"} THEN "diecut_mask" ELSE @]

\* C23 amended: two tuples that differ in more than the spelling die /
\* diecut_mask of the finish never get the same filename, two tuples that
\* differ only in that spelling get the same filename, and a tuple gets the
\* same filename at every call
C23_FilenameInjectiveUpToDieAlias ==
  /\ npc \in {"applied", "again"} =>
       ((CanonicalTuple(nameA) # CanonicalTuple(nameB)) <=> (fileA # fileB))
  /\ npc = "again" => fileA2 = fileA

\* die and diecut_svg of the same side and index got different filenames
C23_Witness ==
  /\ npc = "again"
  /\ nameA = [side |-> "front", index |-> 1, finish |-> "die"]
  /\ nameB = [side |-> "front", index |-> 1, finish |-> "diecut_svg"]
  /\ fileA = <<"front_layer_1_diecut_mask", "png">>
  /\ fileB = <<"front_layer_1_diecut_svg", "svg">>
  /\ fileA2 = fileA

\* the declarations of the builder's sides, as <<i, j>>: finish j of side i,
\* that are neither albedo nor die and whose key is not in the output map
MissingDeclarations ==
  { p \in UNION { {<<i, j>> : j \in 1..Len(rbSides[i].finishes)} :
                  i \in 1..Len(rbSides) } :
      LET s == rbSides[p[1]]
          f == s.finishes[p[2]]
      IN /\ f \notin {"albedo", "die"}
         /\ \A o \in rbOutputs : o[1] # output_key(s.side, s.index, f) }

\* the warning that names the key of declaration p
DeclarationWarning(p) ==
  LET s == rbSides[p[1]]
      f == s.finishes[p[2]]
  IN "Side declares finish '" \o f \o "' but no output: "
       \o s.side \o "_layer_" \o ToString(s.index) \o "_" \o f

\* C24: for a report that has all the top-level keys, validate_report
\* returns one warning per declared finish, other than albedo and die, whose
\* key "{side}_layer_{index}_{finish}" is not in the output map; each warning
\* names that key, and there is no warning when every such key is present.
C24_OneWarningPerMissingOutput ==
  [][ RbValidate =>
        LET w == rbWarnings'[1]
        IN /\ Len(w) = Cardinality(MissingDeclarations)
           /\ \A n \in 1..Len(w) :
                \E p \in MissingDeclarations : w[n] = DeclarationWarning(p)
           /\ \A p \in MissingDeclarations :
                Cardinality({n \in 1..Len(w) : w[n] = DeclarationWarning(p)})
                  = Cardinality({q \in MissingDeclarations :
                                   DeclarationWarning(q) = DeclarationWarning(p)})
           /\ (MissingDeclarations = {} => w = <<>>) ]_vars

\* front declares albedo, foil and uv, only the foil plate is in the output
\* map, and the validation returned the one warning for the uv key
C24_Witness ==
  /\ rbSides = << [side |-> "front", index |-> 0,
                   finishes |-> <<"albedo", "foil", "uv">>] >>
  /\ rbOutputs = { <<"front_layer_0_foil", <<"front_layer_0_foil", "png">>>> }
  /\ rbWarnings =
       << << "Side declares finish 'uv' but no output: front_layer_0_uv" >> >>

\* every declared key is present and the validation returned no warning
C24_AllPresent ==
  /\ rbSides # <<>>
  /\ \E i \in 1..Len(rbSides) : "uv" \in {rbSides[i].finishes[j] :
                                          j \in 1..Len(rbSides[i].finishes)}
  /\ rbWarnings = << <<>> >>

\* the job validated its report and validate_report returned findings
ValidationFoundMissing ==
  validation_errors # <<>> /\ validation_errors[1] # <<>>

\* C25: an output missing for a declared finish never fails the job: what
\* validate_report finds is returned as a list and only logged, no exception
\* is in flight afterwards, and the job goes on to its successful end with
\* report.json in the results directory.
C25_MissingOutputNeverFails ==
  ValidationFoundMissing =>
    /\ exc = NoExc
    /\ propagated = NoExc
    /\ jpc \in {"next", "done"}
    /\ phase \in {"assembling", "done"}
    /\ ReportName \in results
    /\ report_json # <<>>

\* the job ended successfully although a declared plate has no output
C25_Witness ==
  /\ ValidationFoundMissing
  /\ jpc = "done"
  /\ phase = "done"
  /\ ReportName \in results

\* C26: when a declared artifact is missing, the persisted report.json of the
\* completed job holds a warning-level diagnostic.
C26_WarningInReport ==
  (jpc = "done" /\ ValidationFoundMissing) =>
    \E n \in 1..Len(report_json[1].diagnostics) :
      report_json[1].diagnostics[n].level = "warning"

\* the files that were in results/<job_id> when _assemble_report listed it:
\* report.json is written after the listing, by the save
ResultsAtAssembly == results \ {ReportName}

\* on success the output map has one entry per file listed at assembly,
\* stem -> filename
OneEntryPerResultFile ==
  jpc = "done" =>
    /\ outputs = {<<f[1], f>> : f \in ResultsAtAssembly}
    /\ Cardinality(outputs) = Cardinality(ResultsAtAssembly)

\* C27: on success the output map has exactly one entry per plate file of the
\* results directory, stem -> filename, whichever phase wrote the file, and
\* running the assembly once more over results/<job_id> gives the same
\* output map.
C27_OutputMapIdempotent ==
  jpc = "done" =>
    /\ outputs = {<<f[1], f>> : f \in ResultsAtAssembly}
    /\ Cardinality(outputs) = Cardinality(ResultsAtAssembly)
    /\ collect_outputs(outputs, results) = outputs

\* C28: the dict a build() returned is never changed by a later call on the
\* builder: it stays as it was when build() returned it.
C28_BuiltImmutable == rbBuilt = rbBuiltAt

\* set_illustrator_info and set_plates_detected give the builder new
\* objects: the illustrator and plates_detected values of a returned dict
\* stay as they were
BuiltScalarsKept ==
  rbBuilt # <<>> =>
    /\ rbBuilt[1].jobId = rbBuiltAt[1].jobId
    /\ rbBuilt[1].illustrator = rbBuiltAt[1].illustrator
    /\ rbBuilt[1].plates_detected = rbBuiltAt[1].plates_detected

\* C29: the report is append-only and immutable once persisted: under any
\* sequence of builder calls the artboards, sides and diagnostics lists only
\* grow at their end, each add call by exactly its one entry, so every added
\* entry stays in call order; and what save() wrote is changed by no call
\* other than another save().
C29_AppendOnlyAndPersisted ==
  [][ /\ IsPrefix(rbArtboards, rbArtboards')
      /\ IsPrefix(rbSides, rbSides')
      /\ IsPrefix(rbDiags, rbDiags')
      /\ RbAddArtboard => Len(rbArtboards') = Len(rbArtboards) + 1
      /\ RbAddSide => Len(rbSides') = Len(rbSides) + 1
      /\ RbAddDiagnostic => Len(rbDiags') = Len(rbDiags) + 1
      /\ (rbSaved # <<>> /\ ~RbSave) => rbSaved' = rbSaved ]_vars

\* a report was saved after the first diagnostic, and a second diagnostic
\* was added after the save
C29_Witness ==
  /\ rbSaved # <<>>
  /\ Len(rbSaved[1].diagnostics) = 1
  /\ Len(rbDiags) = 2
  /\ rbDiags[1].code # rbDiags[2].code

\* in the pipeline no step after the save of report.json changes the
\* report or the file
SavedReportKept ==
  [][ report_json # <<>> =>
        UNCHANGED <<report_json, diagnostics, rsides, outputs,
                    plates_detected>> ]_vars

\* the job's own lists only grow at their end
JobListsAppendOnly ==
  [][ IsPrefix(diagnostics, diagnostics') /\ IsPrefix(rsides, rsides') ]_vars

\* the sides whose vector die the tool did not deliver: all of them when
\* pdfToolbox is not installed, else those whose extraction raised
SidesWithoutVectorDie ==
  IF vectorTool.state = "unavailable" THEN SideNames ELSE vectorTool.failed

C30_ToolAbsentJobDone ==
  /\ vectorTool.state = "unavailable"
  /\ jpc = "done"
  /\ ReportName \in results

\* C31: an asset request never takes, waits for or is turned away by
\* JOB_LOCK: whenever one is pending it can be answered at once, whether or
\* not a job holds the lock; answering it leaves the lock and every /parse
\* request as they are, and the answer is the file, 404 or 403, never busy.
C31_AssetsLockFree ==
  /\ [](apc = "requested" => ENABLED GetAsset)
  /\ [][ GetAsset =>
           /\ UNCHANGED <<JOB_LOCK, acquired, released, busyAt, rpc, status>>
           /\ aStatus' \in {200, 403, 404} ]_vars

\* an asset was served while a job was holding the lock
C31_Witness ==
  /\ apc = "done"
  /\ aStatus = 200
  /\ aHeld
  /\ \E r \in Reqs : rpc[r] = "run"

\* run_job was entered for request r and raised: it left no report
PipelineFailed(r) ==
  ran[r] /\ rpc[r] # "run" /\ job_id[r] \notin reports

\* request r has its answer
Answered(r) == rpc[r] \in {"finally", "cleanup", "done"}

\* C32: an admitted request whose pipeline failed is answered 500 with the
\* structured error body, which carries the job id allocated to that request;
\* a request that found the lock held is answered 409 "busy".
C32_FailureAndBusyAnswers ==
  \A r \in Reqs :
    /\ (PipelineFailed(r) /\ Answered(r)) =>
         /\ status[r] = 500
         /\ body[r] = "error"
         /\ bodyJob[r] = job_id[r]
         /\ job_id[r] # 0
    /\ (busyAt[r] /\ rpc[r] = "done") =>
         /\ status[r] = 409
         /\ body[r] = "busy"
         /\ ~ran[r]

\* one request was answered 500 with its job id after its pipeline failed,
\* another one was turned away as busy
C32_Witness ==
  \E r, q \in Reqs :
    /\ r # q
    /\ PipelineFailed(r) /\ rpc[r] = "done"
    /\ status[r] = 500 /\ bodyJob[r] = job_id[r] /\ job_id[r] # 0
    /\ busyAt[q] /\ rpc[q] = "done" /\ status[q] = 409

\* the finishes of the output naming convention
ConventionFinishes ==
  {"albedo", "uv", "foil", "emboss", "diecut_mask", "diecut_svg"}

\* "{side}_layer_{index}_{finish}.{ext}" with the extension of the finish
FollowsConvention(f) ==
  \E side \in SideNames, index \in 0..MaxIndex, finish \in ConventionFinishes :
    f = << side \o "_layer_" \o ToString(index) \o "_" \o finish,
           IF finish = "diecut_svg" THEN "svg" ELSE "png" >>

\* C33: every plate file in the job's results directory, the die vectors of
\* the die-vector phase included, is named "{side}_layer_{index}_{finish}.{ext}"
\* with a finish of the convention and the extension fixed for that finish.
C33_ResultsFollowConvention ==
  \A f \in results \ {ReportName} : FollowsConvention(f)

\* the plates of the Ghostscript phase and the albedo PNGs follow the
\* convention: only the die vectors do not
RasterResultsFollowConvention ==
  \A f \in results \ ({ReportName} \cup ToolDieSvgs \cup JsxDieSvgs) :
    FollowsConvention(f)

\* C34: every admitted request reaches its terminal answer, success or
\* failure, and the lock it took is released: a request is inside the
\* pipeline only while the lock is held, a held lock always becomes free
\* again, a request that left the pipeline has been answered 200 or 500, and
\* a request that then tries the free lock is admitted.
C34_LockEventuallyReleased ==
  /\ JOB_LOCK ~> ~JOB_LOCK
  /\ [](\A r \in Reqs :
          /\ InPipeline(r) => JOB_LOCK
          /\ (acquired[r] > 0 /\ ~InPipeline(r)) => status[r] \in {200, 500})
  /\ [][ \A r \in Reqs :
           (rpc[r] = "lock" /\ ~JOB_LOCK /\ rpc'[r] # "lock")
             => rpc'[r] = "save" ]_vars

\* every admitted request ends answered
EveryAdmittedRequestAnswered ==
  \A r \in Reqs :
    InPipeline(r) ~> (rpc[r] = "done" /\ status[r] \in {200, 500})

C34_Witness ==
  \E r, q \in Reqs :
    /\ r # q
    /\ rpc[r] = "done" /\ status[r] = 500 /\ released[r] = 1
    /\ job_id[q] > job_id[r] /\ job_id[r] # 0
    /\ rpc[q] = "run"

\* run() ends: it returns success or re-raises after _handle_failure
JobTerminates == <>(jpc \in {"done", "failed"})

\* a call of _wait_for_file ends
WaitTerminates == Waiting ~> ~Waiting

\* the script of the admitted job r has yet to read job.jsx
MayStillRead(r) == lpc[r] \in {"launch", "wait"} /\ lRead[r] = 0

\* C35: job.jsx written by an admitted job is neither overwritten nor removed
\* by another request while the job's script may still read it, and the
\* description the script of a running job has read is the one of the job
\* that launched it.
C35_JobJsxOwnedByAdmittedJob ==
  /\ [][ \A r \in Reqs :
           (MayStillRead(r) /\ lJobJsx = lId[r] /\ lJobJsx' # lJobJsx)
             => lpc'[r] # lpc[r] ]_vars
  /\ [](\A r \in Reqs :
          (lpc[r] = "wait" /\ lRead[r] # 0) => lRead[r] = lId[r])

\* a request that released the lock has yet to tidy up while the next job
\* has written its job.jsx
C35_LateTidy ==
  \E r, q \in Reqs :
    /\ lpc[r] = "tidy"
    /\ MayStillRead(q)
    /\ lJobJsx = lId[q]
\* the request was answered by a check made before admission
Rejected(r) == rpc[r] = "done" /\ status[r] \in {400, 401, 409, 413}

\* C36: a /parse request rejected before admission (bad or missing key,
\* missing file, wrong extension, oversize, busy) leaves the service state
\* as it was: the rejecting step changes neither the lock nor the job ids
\* nor the files under incoming, failed and results, and the rejected
\* request never has a job id, a lock acquisition, a run or a file.
C36_RejectionLeavesStateUnchanged ==
  /\ [][ \A r \in Reqs :
           (~Rejected(r) /\ Rejected(r)')
             => UNCHANGED <<JOB_LOCK, job_id, nextId, incoming, failedIn,
                            reports, acquired, released, ran>> ]_vars
  /\ [](\A r \in Reqs :
          Rejected(r) =>
            /\ job_id[r] = 0
            /\ bodyJob[r] = 0
            /\ acquired[r] = 0
            /\ released[r] = 0
            /\ ~ran[r]
            /\ r \notin incoming \cup failedIn)

\* a request was rejected by validation while another job held the lock and
\* had its upload under incoming
C36_Witness ==
  \E r, q \in Reqs :
    /\ Rejected(r)
    /\ status[r] # 409
    /\ InPipeline(q)
    /\ incoming = {q}

\* a request was rejected as busy while the job holding the lock had
\* written its report
C36_BusyWitness ==
  \E r, q \in Reqs :
    /\ Rejected(r)
    /\ status[r] = 409
    /\ job_id[q] \in reports

\* the same for the handler of app.py: its rejecting steps leave the lock,
\* the job ids, the uploads and job.jsx as they were
LegacyRejectionLeavesStateUnchanged ==
  [][ \A r \in Reqs :
        (lpc[r] \in {"validate", "lock"} /\ lpc'[r] = "done")
          => /\ lStatus'[r] \in {400, 401, 409, 413}
             /\ UNCHANGED <<lLock, lId, lNextId, lIncoming, lJobJsx, lScript,
                            lRead>> ]_vars

\* the codes of the diagnostics recorded by the job
DiagnosticCodes == {diagnostics[i].code : i \in DOMAIN diagnostics}

\* C37: when the wait for the Illustrator process timed out and the export
\* phase failed, the job has recorded TIMEOUT_ILLUSTRATOR and not
\* PDF_SAVE_FAILED; PDF_SAVE_FAILED is recorded only when no timeout
\* occurred.
C37_TimeoutRecordedAsTimeout ==
  /\ (timedOut /\ phase = "compositing" /\ exc # NoExc)
       => /\ "TIMEOUT_ILLUSTRATOR" \in DiagnosticCodes
          /\ "PDF_SAVE_FAILED" \notin DiagnosticCodes
  /\ "PDF_SAVE_FAILED" \in DiagnosticCodes => ~timedOut

\* PDF_SAVE_FAILED is recorded for the failures of the export phase that
\* are not timeouts
C37_OtherFailuresRecorded ==
  (~timedOut /\ phase = "compositing" /\ exc.type = "IllustratorError")
    => "PDF_SAVE_FAILED" \in DiagnosticCodes

\* no run records TIMEOUT_ILLUSTRATOR
C37_TimeoutCodeNeverRecorded == "TIMEOUT_ILLUSTRATOR" \notin DiagnosticCodes

\* C38: run_export_job never reports success on a stale marker: the done
\* and error sentinels of an earlier run are gone when the script is
\* launched, from then on a sentinel appears only while the launched script
\* writes it, and run_job returns only with a written done sentinel.
C38_NoSuccessOnStaleMarker ==
  /\ [](jpc = "ill_launch" => (doneMarker = "absent" /\ errMarker = ErrAbsent))
  /\ [](jpc = "ill_load" => doneMarker = "written")
  /\ [][ (doneMarker' # doneMarker \/ errMarker' # errMarker)
           => (ScriptActive \/ jpc = "ill_init") ]_vars

\* the working directory held sentinels of an earlier run, and run_job has
\* returned on the done sentinel written by the script it launched
C38_Witness ==
  /\ staleMarkers
  /\ jpc = "ill_load"
  /\ doneMarker = "written"
  /\ script # "none"

\* the error sentinel of an earlier run is never reported as the error of
\* this run
C38_NoStaleError ==
  jpc \in {"ill_launch", "ill_wait", "ill_sentinel", "ill_load"}
    => errMarker # ErrFile("stale")


\* C39: for a fresh job id, results/<job_id>/report.json exists only if the
\* job succeeded: whenever run() raises, no report.json was written.
C39_ReportOnlyOnSuccess == ReportName \in results => exc = NoExc

\* a complete report is in results only when no phase raised
C39_CompleteReportOnlyOnSuccess == report_json # <<>> => exc = NoExc

\* the finishes of the table whose tokens occur in the lower-cased name
MatchingEntries(name) ==
  {k \in DOMAIN TOKENS :
     \E j \in DOMAIN TOKENS[k].tokens :
       Contains(lower(name), TOKENS[k].tokens[j])}

ParenName(w) == <<"(">> \o w \o <<")">>

\* C40: detect_finish_from_name matches case-insensitively by substring:
\* it returns the first finish in table order (FOIL, UV, EMBOSS, DIE) one
\* of whose tokens occurs in the lower-cased name, and None when no token
\* occurs; "(FOIL)" gives FOIL, and the process plates (Cyan), (Magenta),
\* (Yellow), (Black) give None.
C40_DetectFinish ==
  dpc = "done" =>
    /\ MatchingEntries(dName) = {} <=> dResult = None
    /\ MatchingEntries(dName) # {} =>
         \E k \in MatchingEntries(dName) :
           /\ dResult = TOKENS[k].finish
           /\ \A m \in MatchingEntries(dName) : k <= m
    /\ dName = ParenName(<<"F", "O", "I", "L">>) => dResult = "FOIL"
    /\ dName \in {ParenName(<<"C", "y", "a", "n">>),
                  ParenName(<<"M", "a", "g", "e", "n", "t", "a">>),
                  ParenName(<<"Y", "e", "l", "l", "o", "w">>),
                  ParenName(<<"B", "l", "a", "c", "k">>)}
         => dResult = None

\* the plate name (FOIL) was classified
C40_Witness ==
  /\ dpc = "done"
  /\ dName = ParenName(<<"F", "O", "I", "L">>)
  /\ dResult = "FOIL"

\* a name holding tokens of two finishes was given the earlier one
C40_TableOrderWitness ==
  /\ dpc = "done"
  /\ dName = <<"U", "V", "_", "F", "o", "i", "l">>
  /\ dResult = "FOIL"

\* a word that merely contains a token is classified too
C40_SubstringWitness ==
  /\ dpc = "done"
  /\ dName = <<"M", "e", "d", "i", "e", "v", "a", "l">>
  /\ dResult = "DIE"
====
